---- MODULE Spec2Model ----
(***************************************************************************)
(* Model of the RSQL builder (class RSQLBuilderBase).  A text is a         *)
(* sequence of one-character strings, so that endsWith, slice and += are   *)
(* the sequence operations Last, SubSeq and \o.                            *)
(***************************************************************************)
EXTENDS Integers, Sequences, FiniteSets, TLC

VARIABLES rsqlStr, defaultLogicOperator, replaceExistingLogicOperator,
          customComparisonOperators, live, options, last, calls, heap,
          queryParts

vars == <<rsqlStr, defaultLogicOperator, replaceExistingLogicOperator,
          customComparisonOperators, live, options, last, calls, heap,
          queryParts>>

\* what a constructor sets; options[b] is the object builder b was constructed
\* with, as it was then.  heap holds the objects of the caller: an options
\* object, a table of custom operators, and for each builder whether its
\* customComparisonOperators is that table (the same object, not a copy)
config == <<defaultLogicOperator, replaceExistingLogicOperator,
            customComparisonOperators, options, heap>>

(***************************************************************************)
(* Bounds                                                                  *)
(***************************************************************************)
\* most characters the builders may hold together
MaxLen == 15
\* longest list of builders handed to merge
MaxBuilders == 2
\* most method calls of a run of Spec
MaxCalls == 5
\* most method calls of a run of SpecComparison
MaxComparisonCalls == 3
\* most method calls of a run of SpecMerge
MaxMergeCalls == 2
\* most method calls of a run of SpecValue
MaxValueCalls == 1
\* most characters a builder of SpecValue may hold
MaxValueLen == 30
\* longest string value
MaxStrLen == 2
\* most calls in a run of SpecCompose
MaxComposeCalls == 3
\* most steps in a run of SpecOptions
MaxOptionsCalls == 3
\* most steps in a run of SpecReplace, two constructors among them
MaxReplaceCalls == 4
\* most steps in a run of SpecMongoDb, the constructor among them
MaxMongoDbCalls == 3
\* most characters the builder of SpecMongoDb may hold
MaxMongoDbLen == 30
\* most calls in a run of SpecCopy
MaxCopyCalls == 3
\* most calls in a run of SpecQueryBuilder
MaxQueryCalls == 4

\* the builder objects of a run
Builders == {"b1", "b2", "b3"}

(***************************************************************************)
(* JavaScript values                                                       *)
(***************************************************************************)
Undefined == [t |-> "undefined"]
Null == [t |-> "null"]
Str(s) == [t |-> "string", s |-> s]
\* a number, kept in tenths: Num(683) is 68.3
Num(n) == [t |-> "number", n |-> n]
Bool(b) == [t |-> "boolean", b |-> b]
\* a Date: its time value as the day since 1970-01-01 UTC and the millisecond
\* of that day; an invalid Date has the time value NaN
Date(valid, day, ms) == [t |-> "Date", valid |-> valid, day |-> day, ms |-> ms]
Arr(a) == [t |-> "Array", a |-> a]
\* any other object, such as a builder
Obj == [t |-> "object"]

\* the absent LogicOperator of an optional parameter or option
NoLogicOperator == "undefined"

\* the text of the JavaScript value undefined in a string concatenation
UndefinedText == <<"u", "n", "d", "e", "f", "i", "n", "e", "d">>

\* properties every object literal inherits from Object.prototype
ObjectPrototypeKeys == {"toString", "constructor"}

\* obj[key] on an object literal: own property, inherited one, or undefined
Get(obj, key) ==
    IF key \in DOMAIN obj THEN obj[key]
    ELSE IF key \in ObjectPrototypeKeys THEN [inherited |-> key]
    ELSE Undefined

\* the test of if (v) and of v || w on the values of the model
Truthy(v) == v # Undefined /\ v # Null /\ v # Bool(FALSE)

(***************************************************************************)
(* The built-in comparison operators                                       *)
(***************************************************************************)
comparisonOperators ==
    [equal              |-> [rsql |-> <<"=", "=">>],
     notEqual           |-> [rsql |-> <<"!", "=">>],
     lessThan           |-> [rsql |-> <<"=", "l", "t", "=">>],
     greaterThan        |-> [rsql |-> <<"=", "g", "t", "=">>],
     lessThanOrEqual    |-> [rsql |-> <<"=", "l", "e", "=">>],
     greaterThanOrEqual |-> [rsql |-> <<"=", "g", "e", "=">>],
     in                 |-> [rsql |-> <<"=", "i", "n", "=">>, isArray |-> TRUE],
     notIn              |-> [rsql |-> <<"=", "o", "u", "t", "=">>, isArray |-> TRUE]]

\* operator.rsql, which is undefined on an object without that property
Rsql(operator) ==
    IF "rsql" \in DOMAIN operator THEN operator.rsql ELSE UndefinedText

\* operator.isArray === true
IsArray(operator) ==
    "isArray" \in DOMAIN operator /\ operator.isArray = TRUE

(***************************************************************************)
(* Texts                                                                   *)
(***************************************************************************)
endsWith(str, c) == Len(str) > 0 /\ str[Len(str)] = c

EndsWithLogicOperator(str) == endsWith(str, ";") \/ endsWith(str, ",")

\* escapeString with a regular expression without the g flag: the first
\* match alone is replaced
escapeStringFirstMatch(input) ==
    LET matches == {i \in 1..Len(input) : input[i] \in {"(", ")", ";", ","}}
    IN  IF matches = {} THEN input
        ELSE LET k == CHOOSE i \in matches : \A j \in matches : i <= j
             IN  SubSeq(input, 1, k - 1) \o <<"\\">> \o SubSeq(input, k, Len(input))

RECURSIVE escapeString(_)
escapeString(input) ==
    IF input = <<>> THEN <<>>
    ELSE (IF Head(input) \in {"(", ")", ";", ","}
          THEN <<"\\", Head(input)>> ELSE <<Head(input)>>)
         \o escapeString(Tail(input))

Digit(d) == <<"0", "1", "2", "3", "4", "5", "6", "7", "8", "9">>[d + 1]

RECURSIVE Digits(_)
Digits(n) == IF n < 10 THEN <<Digit(n)>> ELSE Digits(n \div 10) \o <<Digit(n % 10)>>

\* Number.prototype.toFixed() with no argument: the sign, then the nearest
\* integer to the magnitude (the larger one on a tie) in decimal digits
toFixed(n) ==
    LET m == IF n < 0 THEN 0 - n ELSE n
        r == (m + 5) \div 10
    IN  (IF n < 0 THEN <<"-">> ELSE <<>>) \o Digits(r)

\* n in decimal digits, with zeros in front up to width digits
Pad(n, width) ==
    LET ds == Digits(n)
    IN  [i \in 1..(width - Len(ds)) |-> "0"] \o ds

\* the civil date of a day since 1970-01-01 in the proleptic Gregorian
\* calendar, for the years 1970 to 9999
YearMonthDay(day) ==
    LET z == day + 719468
        era == z \div 146097
        doe == z % 146097
        yoe == (doe - doe \div 1460 + doe \div 36524 - doe \div 146096) \div 365
        doy == doe - (365 * yoe + yoe \div 4 - yoe \div 100)
        mp == (5 * doy + 2) \div 153
        m == IF mp < 10 THEN mp + 3 ELSE mp - 9
    IN  [year |-> yoe + era * 400 + (IF m <= 2 THEN 1 ELSE 0), month |-> m,
         date |-> doy - (153 * mp + 2) \div 5 + 1]

\* Date.prototype.toISOString with the month counted from zero
toISOStringZeroBasedMonth(value) ==
    LET d == YearMonthDay(value.day)
    IN  Pad(d.year, 4) \o <<"-">> \o Pad(d.month - 1, 2) \o <<"-">> \o Pad(d.date, 2)
        \o <<"T">> \o Pad(value.ms \div 3600000, 2)
        \o <<":">> \o Pad((value.ms \div 60000) % 60, 2)
        \o <<":">> \o Pad((value.ms \div 1000) % 60, 2)
        \o <<".">> \o Pad(value.ms % 1000, 3) \o <<"Z">>

\* Date.prototype.toISOString of a valid Date: YYYY-MM-DDTHH:mm:ss.sssZ
toISOString(value) ==
    LET d == YearMonthDay(value.day)
    IN  Pad(d.year, 4) \o <<"-">> \o Pad(d.month, 2) \o <<"-">> \o Pad(d.date, 2)
        \o <<"T">> \o Pad(value.ms \div 3600000, 2)
        \o <<":">> \o Pad((value.ms \div 60000) % 60, 2)
        \o <<":">> \o Pad((value.ms \div 1000) % 60, 2)
        \o <<".">> \o Pad(value.ms % 1000, 3) \o <<"Z">>

Ok(str) == [threw |-> FALSE, str |-> str]
Throw(error) == [threw |-> TRUE, error |-> error]

\* valueToString that ends in String(value) for the throw, as a template
\* literal would
valueToStringOfAnything(value) ==
    IF value.t = "null" THEN Ok(<<"n", "u", "l", "l">>)
    ELSE IF value.t = "string" THEN Ok(<<"\"">> \o escapeString(value.s) \o <<"\"">>)
    ELSE IF value.t = "number" THEN Ok(toFixed(value.n))
    ELSE IF value.t = "boolean"
         THEN Ok(IF value.b = TRUE THEN <<"t", "r", "u", "e">>
                 ELSE <<"f", "a", "l", "s", "e">>)
    ELSE IF value.t = "Date"
         THEN (IF value.valid THEN Ok(toISOString(value)) ELSE Throw("Invalid time value"))
    ELSE Ok(IF value.t = "Array" THEN <<>> ELSE <<"[", "o", "b", "j", "e", "c", "t", "]">>)

valueToString(value) ==
    IF value.t = "null" THEN Ok(<<"n", "u", "l", "l">>)
    ELSE IF value.t = "string" THEN Ok(<<"\"">> \o escapeString(value.s) \o <<"\"">>)
    ELSE IF value.t = "number" THEN Ok(toFixed(value.n))
    ELSE IF value.t = "boolean"
         THEN Ok(IF value.b = TRUE THEN <<"t", "r", "u", "e">>
                 ELSE <<"f", "a", "l", "s", "e">>)
    ELSE IF value.t = "Date"
         THEN (IF value.valid THEN Ok(toISOString(value)) ELSE Throw("Invalid time value"))
    ELSE Throw("Unhandled value type.")

\* removeTrailingLogicOperator with an if for the while: one character goes
removeOneTrailingLogicOperator(str) ==
    IF EndsWithLogicOperator(str) THEN SubSeq(str, 1, Len(str) - 1) ELSE str

RECURSIVE removeTrailingLogicOperator(_)
removeTrailingLogicOperator(str) ==
    IF EndsWithLogicOperator(str)
    THEN removeTrailingLogicOperator(SubSeq(str, 1, Len(str) - 1))
    ELSE str

appendLogicOperator(str, replaceExisting, logicOperator) ==
    LET s == IF replaceExisting THEN removeTrailingLogicOperator(str) ELSE str
    IN  IF logicOperator = "or" THEN s \o <<",">> ELSE s \o <<";">>

\* logicOperator || this.defaultLogicOperator
OrDefault(logicOperator, dflt) ==
    IF logicOperator # NoLogicOperator THEN logicOperator ELSE dflt

\* ensureLogicOperator that forgets the default of the class options
ensureLogicOperatorWithoutDefault(str, replaceExisting, logicOperator, dflt) ==
    IF Len(str) = 0 THEN str
    ELSE IF ~endsWith(str, ";") /\ ~endsWith(str, ",")
         THEN appendLogicOperator(str, replaceExisting, OrDefault(logicOperator, "and"))
         ELSE str

ensureLogicOperator(str, replaceExisting, logicOperator, dflt) ==
    IF Len(str) = 0 THEN str
    ELSE IF ~endsWith(str, ";") /\ ~endsWith(str, ",")
         THEN appendLogicOperator(str, replaceExisting, OrDefault(logicOperator, dflt))
         ELSE str

(***************************************************************************)
(* The methods, as functions of the texts of all builders: strs[b] is the  *)
(* rsqlStr of builder b.  Each yields [strs, threw].                       *)
(***************************************************************************)
Return(strs) == [strs |-> strs, threw |-> FALSE, error |-> ""]
\* a throw that also drops the texts held so far
RaiseAndForget(strs, error) ==
    [strs |-> [b \in DOMAIN strs |-> <<>>], threw |-> TRUE, error |-> error]

Raise(strs, error) == [strs |-> strs, threw |-> TRUE, error |-> error]

\* strArray.join(';')
RECURSIVE joinBySemicolon(_)
joinBySemicolon(strArray) ==
    IF strArray = <<>> THEN <<>>
    ELSE IF Len(strArray) = 1 THEN strArray[1]
    ELSE strArray[1] \o <<";">> \o joinBySemicolon(Tail(strArray))

\* strArray.join(',')
RECURSIVE join(_)
join(strArray) ==
    IF strArray = <<>> THEN <<>>
    ELSE IF Len(strArray) = 1 THEN strArray[1]
    ELSE strArray[1] \o <<",">> \o join(Tail(strArray))

\* the first element of the array whose conversion throws, 0 if none does
FirstThrow(rs) ==
    IF \E i \in 1..Len(rs) : rs[i].threw
    THEN CHOOSE i \in 1..Len(rs) : rs[i].threw /\ \A j \in 1..(i - 1) : ~rs[j].threw
    ELSE 0

\* the lookup with the tables in the other order, the built-in table first
OperatorBuiltInFirst(custom, comparisonOperator) ==
    LET c == Get(comparisonOperators, comparisonOperator)
    IN  IF Truthy(c) THEN c ELSE Get(custom, comparisonOperator)

\* this.customComparisonOperators[name] || this.comparisonOperators[name]
Operator(custom, comparisonOperator) ==
    LET c == Get(custom, comparisonOperator)
    IN  IF Truthy(c) THEN c ELSE Get(comparisonOperators, comparisonOperator)

\* addComparison that branches on Array.isArray(value) alone and renders an
\* array as a list whatever the operator
addComparisonWithoutArrayCheck(strs, this, replaceExisting, dflt, custom, selector, comparisonOperator, value) ==
    LET s1 == ensureLogicOperator(strs[this], replaceExisting, NoLogicOperator, dflt)
        strs1 == [strs EXCEPT ![this] = s1]
        operator == Operator(custom, comparisonOperator)
    IN  IF ~Truthy(operator) THEN Raise(strs1, "Invalid comparison operator 'undefined'.")
        ELSE IF value.t = "Array"
        THEN LET rs == [i \in 1..Len(value.a) |-> valueToString(value.a[i])]
                 k == FirstThrow(rs)
             IN  IF k # 0 THEN Raise(strs1, rs[k].error)
                 ELSE Return([strs1 EXCEPT ![this] =
                          s1 \o selector \o Rsql(operator) \o <<"(">>
                             \o join([i \in 1..Len(rs) |-> rs[i].str]) \o <<")">>])
        ELSE LET r == valueToString(value)
             IN  IF r.threw THEN Raise(strs1, r.error)
                 ELSE Return([strs1 EXCEPT ![this] = s1 \o selector \o Rsql(operator) \o r.str])

\* addComparison that looks the operator up and converts the value before it
\* calls ensureLogicOperator, so that a throw leaves the text as it was
addComparisonCheckingFirst(strs, this, replaceExisting, dflt, custom, selector, comparisonOperator, value) ==
    LET s1 == ensureLogicOperator(strs[this], replaceExisting, NoLogicOperator, dflt)
        strs1 == [strs EXCEPT ![this] = s1]
        operator == Operator(custom, comparisonOperator)
    IN  IF ~Truthy(operator) THEN Raise(strs, "Invalid comparison operator 'undefined'.")
        ELSE IF IsArray(operator)
        THEN LET rs == IF value.t = "Array"
                       THEN [i \in 1..Len(value.a) |-> valueToString(value.a[i])]
                       ELSE <<valueToString(value)>>
                 k == FirstThrow(rs)
             IN  IF k # 0 THEN Raise(strs, rs[k].error)
                 ELSE Return([strs1 EXCEPT ![this] =
                          s1 \o selector \o Rsql(operator) \o <<"(">>
                             \o join([i \in 1..Len(rs) |-> rs[i].str]) \o <<")">>])
        ELSE IF value.t = "Array"
        THEN Raise(strs, "Non-array comparison operator '[object Object]' does not support array values.")
        ELSE LET r == valueToString(value)
             IN  IF r.threw THEN Raise(strs, r.error)
                 ELSE Return([strs1 EXCEPT ![this] = s1 \o selector \o Rsql(operator) \o r.str])
addComparison(strs, this, replaceExisting, dflt, custom, selector, comparisonOperator, value) ==
    LET s1 == ensureLogicOperator(strs[this], replaceExisting, NoLogicOperator, dflt)
        strs1 == [strs EXCEPT ![this] = s1]
        operator == Operator(custom, comparisonOperator)
    IN  IF ~Truthy(operator) THEN Raise(strs1, "Invalid comparison operator 'undefined'.")
        ELSE IF IsArray(operator)
        THEN LET rs == IF value.t = "Array"
                       THEN [i \in 1..Len(value.a) |-> valueToString(value.a[i])]
                       ELSE <<valueToString(value)>>
                 k == FirstThrow(rs)
             IN  IF k # 0 THEN Raise(strs1, rs[k].error)
                 ELSE Return([strs1 EXCEPT ![this] =
                          s1 \o selector \o Rsql(operator) \o <<"(">>
                             \o join([i \in 1..Len(rs) |-> rs[i].str]) \o <<")">>])
        ELSE IF value.t = "Array"
        THEN Raise(strs1, "Non-array comparison operator '[object Object]' does not support array values.")
        ELSE LET r == valueToString(value)
             IN  IF r.threw THEN Raise(strs1, r.error)
                 ELSE Return([strs1 EXCEPT ![this] = s1 \o selector \o Rsql(operator) \o r.str])

\* the built-in operators of src/src/RSQLBuilder.ts: the literals as strings
comparisonOperatorsOfRSQLBuilder ==
    [equal              |-> Str(<<"=", "=">>),
     notEqual           |-> Str(<<"!", "=">>),
     lessThan           |-> Str(<<"=", "l", "t", "=">>),
     greaterThan        |-> Str(<<"=", "g", "t", "=">>),
     lessThanOrEqual    |-> Str(<<"=", "l", "e", "=">>),
     greaterThanOrEqual |-> Str(<<"=", "g", "e", "=">>),
     in                 |-> Str(<<"=", "i", "n", "=">>),
     notIn              |-> Str(<<"=", "o", "u", "t", "=">>)]

\* field + operator: the operator as text, a string as it is and a function
\* inherited from Object.prototype by its source text
OperatorText(operator) ==
    IF "s" \in DOMAIN operator THEN operator.s
    ELSE IF operator.inherited = "toString"
         THEN <<"f", "u", "n", "c", "t", "i", "o", "n", " ", "t", "o", "S", "t", "r", "i", "n", "g", "(", ")", " ", "{", " ", "[", "n", "a", "t", "i", "v", "e", " ", "c", "o", "d", "e", "]", " ", "}">>
         ELSE <<"f", "u", "n", "c", "t", "i", "o", "n", " ", "O", "b", "j", "e", "c", "t", "(", ")", " ", "{", " ", "[", "n", "a", "t", "i", "v", "e", " ", "c", "o", "d", "e", "]", " ", "}">>

\* addComparison of src/src/RSQLBuilder.ts: the built-in table comes first,
\* and the branch is on Array.isArray(value)
addComparisonOfRSQLBuilder(strs, this, replaceExisting, dflt, custom, field, comparisonOperator, value) ==
    LET s1 == ensureLogicOperator(strs[this], replaceExisting, NoLogicOperator, dflt)
        strs1 == [strs EXCEPT ![this] = s1]
        builtIn == Get(comparisonOperatorsOfRSQLBuilder, comparisonOperator)
        operator == IF Truthy(builtIn) THEN builtIn ELSE Get(custom, comparisonOperator)
    IN  IF ~Truthy(operator) THEN Raise(strs1, "Invalid comparison operator 'undefined'.")
        ELSE IF value.t = "Array"
        THEN LET rs == [i \in 1..Len(value.a) |-> valueToString(value.a[i])]
                 k == FirstThrow(rs)
             IN  IF k # 0 THEN Raise(strs1, rs[k].error)
                 ELSE Return([strs1 EXCEPT ![this] =
                          s1 \o field \o OperatorText(operator) \o <<"(">>
                             \o join([i \in 1..Len(rs) |-> rs[i].str]) \o <<")">>])
        ELSE LET r == valueToString(value)
             IN  IF r.threw THEN Raise(strs1, r.error)
                 ELSE Return([strs1 EXCEPT ![this] =
                          s1 \o field \o OperatorText(operator) \o r.str])

\* regex that renders the pattern as a string value, quoted and escaped
regexOfCopyAsValue(strs, this, replaceExisting, dflt, field, literal, regex, opts) ==
    LET s1 == ensureLogicOperator(strs[this], replaceExisting, NoLogicOperator, dflt)
    IN  Return([strs EXCEPT ![this] =
                   s1 \o field \o literal \o valueToString(Str(regex)).str
                      \o (IF opts # Undefined THEN <<"=">> \o opts.s ELSE <<>>)])

\* regex and notRegex of src/src/RSQLBuilder copy.ts, literal being '=regex='
\* or '=notregex=': ensureOperator(), then
\* str += field + literal + regex + (options !== undefined ? '=' + options : '')
regexOfCopy(strs, this, replaceExisting, dflt, field, literal, regex, opts) ==
    LET s1 == ensureLogicOperator(strs[this], replaceExisting, NoLogicOperator, dflt)
    IN  Return([strs EXCEPT ![this] =
                   s1 \o field \o literal \o regex
                      \o (IF opts # Undefined THEN <<"=">> \o opts.s ELSE <<>>)])

\* equals of src/src/RSQLBuilder copy.ts:
\* ensureOperator(), then str += field + '==' + this.valueToString(value)
equalsOfCopy(strs, this, replaceExisting, dflt, field, value) ==
    LET s1 == ensureLogicOperator(strs[this], replaceExisting, NoLogicOperator, dflt)
        strs1 == [strs EXCEPT ![this] = s1]
        r == valueToString(value)
    IN  IF r.threw THEN Raise(strs1, r.error)
        ELSE Return([strs1 EXCEPT ![this] = s1 \o field \o <<"=", "=">> \o r.str])

addLogicOperator(strs, this, replaceExisting, logicOperator) ==
    Return([strs EXCEPT ![this] = appendLogicOperator(strs[this], replaceExisting, logicOperator)])

\* toString() that strips the operators the text ends with
toStringTrimmed(strs, this) == removeTrailingLogicOperator(strs[this])

toString(strs, this) == strs[this]

\* isEmpty() that takes a text of operators alone for empty
isEmptyButForOperators(strs, this) == Len(removeTrailingLogicOperator(strs[this])) = 0

isEmpty(strs, this) == Len(strs[this]) = 0

reset(strs, this) == Return([strs EXCEPT ![this] = <<>>])

\* concat without the isEmpty() test
concatWithoutEmptyTest(strs, this, replaceExisting, dflt, builder) ==
    LET strs1 == [strs EXCEPT ![this] =
                     ensureLogicOperator(strs[this], replaceExisting, NoLogicOperator, dflt)]
    IN  Return([strs1 EXCEPT ![this] = strs1[this] \o toString(strs1, builder)])

\* concat that reads the text of the argument before it calls
\* ensureLogicOperator
concatReadingFirst(strs, this, replaceExisting, dflt, builder) ==
    IF ~isEmpty(strs, builder)
    THEN LET text == toString(strs, builder)
             strs1 == [strs EXCEPT ![this] =
                          ensureLogicOperator(strs[this], replaceExisting, NoLogicOperator, dflt)]
         IN  Return([strs1 EXCEPT ![this] = strs1[this] \o text])
    ELSE Return(strs)

\* concat with = for +=: the text of the argument takes the place of the
\* text held
concatAssigning(strs, this, replaceExisting, dflt, builder) ==
    IF ~isEmpty(strs, builder)
    THEN LET strs1 == [strs EXCEPT ![this] =
                          ensureLogicOperator(strs[this], replaceExisting, NoLogicOperator, dflt)]
         IN  Return([strs1 EXCEPT ![this] = toString(strs1, builder)])
    ELSE Return(strs)

concat(strs, this, replaceExisting, dflt, builder) ==
    IF ~isEmpty(strs, builder)
    THEN LET strs1 == [strs EXCEPT ![this] =
                          ensureLogicOperator(strs[this], replaceExisting, NoLogicOperator, dflt)]
         IN  Return([strs1 EXCEPT ![this] = strs1[this] \o toString(strs1, builder)])
    ELSE Return(strs)

\* group that appends the text as concat does, without parentheses
groupWithoutParentheses(strs, this, replaceExisting, dflt, builder) ==
    LET strs1 == [strs EXCEPT ![this] =
                     ensureLogicOperator(strs[this], replaceExisting, NoLogicOperator, dflt)]
    IN  Return([strs1 EXCEPT ![this] = strs1[this] \o toString(strs1, builder)])

\* group that calls appendLogicOperator for ensureLogicOperator, so that an
\* operator already there is replaced by the default
groupReplacingOperator(strs, this, replaceExisting, dflt, builder) ==
    LET strs1 == [strs EXCEPT ![this] =
                     IF Len(strs[this]) = 0 THEN strs[this]
                     ELSE appendLogicOperator(strs[this], replaceExisting, dflt)]
    IN  Return([strs1 EXCEPT ![this] =
                   strs1[this] \o <<"(">> \o toString(strs1, builder) \o <<")">>])

\* group with the isEmpty() test of concat: an empty builder adds nothing
groupSkippingEmpty(strs, this, replaceExisting, dflt, builder) ==
    IF ~isEmpty(strs, builder)
    THEN LET strs1 == [strs EXCEPT ![this] =
                          ensureLogicOperator(strs[this], replaceExisting, NoLogicOperator, dflt)]
         IN  Return([strs1 EXCEPT ![this] =
                        strs1[this] \o <<"(">> \o toString(strs1, builder) \o <<")">>])
    ELSE Return(strs)

\* group that takes the text out of the argument builder instead of copying it
groupMovingText(strs, this, replaceExisting, dflt, builder) ==
    LET strs1 == [strs EXCEPT ![this] =
                     ensureLogicOperator(strs[this], replaceExisting, NoLogicOperator, dflt)]
        strs2 == [strs1 EXCEPT ![this] =
                     strs1[this] \o <<"(">> \o toString(strs1, builder) \o <<")">>]
    IN  Return(IF builder = this THEN strs2 ELSE [strs2 EXCEPT ![builder] = <<>>])

group(strs, this, replaceExisting, dflt, builder) ==
    LET strs1 == [strs EXCEPT ![this] =
                     ensureLogicOperator(strs[this], replaceExisting, NoLogicOperator, dflt)]
    IN  Return([strs1 EXCEPT ![this] =
                   strs1[this] \o <<"(">> \o toString(strs1, builder) \o <<")">>])

\* merge that does not hand options.operator to ensureLogicOperator
RECURSIVE mergeWithoutOperator(_, _, _, _, _, _)
mergeWithoutOperator(strs, this, replaceExisting, dflt, builders, operator) ==
    IF builders = <<>> THEN Return(strs)
    ELSE LET strs1 == [strs EXCEPT ![this] =
                          ensureLogicOperator(strs[this], replaceExisting, NoLogicOperator, dflt)]
             strs2 == [strs1 EXCEPT ![this] =
                          strs1[this] \o <<"(">> \o toString(strs1, Head(builders)) \o <<")">>]
         IN  mergeWithoutOperator(strs2, this, replaceExisting, dflt, Tail(builders), operator)

\* merge that calls appendLogicOperator for ensureLogicOperator, so that the
\* operator of the call takes the place of one the text ends with
RECURSIVE mergeReplacingOperator(_, _, _, _, _, _)
mergeReplacingOperator(strs, this, replaceExisting, dflt, builders, operator) ==
    IF builders = <<>> THEN Return(strs)
    ELSE LET strs1 == [strs EXCEPT ![this] =
                          IF Len(strs[this]) = 0 THEN strs[this]
                          ELSE appendLogicOperator(strs[this], replaceExisting,
                                                   OrDefault(operator, dflt))]
             strs2 == group(strs1, this, replaceExisting, dflt, Head(builders)).strs
         IN  mergeReplacingOperator(strs2, this, replaceExisting, dflt, Tail(builders), operator)

RECURSIVE merge(_, _, _, _, _, _)
merge(strs, this, replaceExisting, dflt, builders, operator) ==
    IF builders = <<>> THEN Return(strs)
    ELSE LET strs1 == [strs EXCEPT ![this] =
                          ensureLogicOperator(strs[this], replaceExisting, operator, dflt)]
             strs2 == group(strs1, this, replaceExisting, dflt, Head(builders)).strs
         IN  merge(strs2, this, replaceExisting, dflt, Tail(builders), operator)

and(strs, this, replaceExisting) ==
    Return([strs EXCEPT ![this] = appendLogicOperator(strs[this], replaceExisting, "and")])

or(strs, this, replaceExisting) ==
    Return([strs EXCEPT ![this] = appendLogicOperator(strs[this], replaceExisting, "or")])

(***************************************************************************)
(* Inputs                                                                  *)
(***************************************************************************)
\* the custom operators of the subclass RSQLBuilderCustom
CustomTable ==
    [equal       |-> [rsql |-> <<"=", "e", "q", "=">>],
     notEqual    |-> [rsql |-> <<"=", "n", "e", "q", "=">>],
     isMonth     |-> [rsql |-> <<"=", "i", "m", "=">>],
     isUpperCase |-> [rsql |-> <<"=", "i", "u", "c", "=">>],
     isInGroup   |-> [rsql |-> <<"=", "i", "i", "c", "=">>, isArray |-> TRUE]]

\* the empty object literal
EmptyTable == [k \in {} |-> Undefined]

Options(logicOperator, custom) ==
    [defaultLogicOperator |-> logicOperator, customComparisonOperators |-> custom]

OptionsSet ==
    {Options(NoLogicOperator, Undefined), Options("and", Undefined),
     Options("or", Undefined), Options(NoLogicOperator, CustomTable)}

CompositionOptions == {Options(NoLogicOperator, Undefined), Options("or", Undefined)}

Selectors == {<<"a">>}

ScalarValues == {Num(10), Str(<<"x">>)}

ArrayValues == {Arr(<<Num(10)>>), Arr(<<Num(10), Num(20)>>)}

\* what a subclass can hand to the protected addComparison
AnyValues == ScalarValues \cup ArrayValues \cup {Obj, Arr(<<Arr(<<>>)>>)}

OperatorNames ==
    {"equal", "in", "isUpperCase", "isInGroup", "invalidComparisonOperator", "toString"}

LogicOperators == {"and", "or"}

\* the characters of the string values: the four that are escaped, the quote,
\* the backslash and one other
Chars == {"x", "(", ")", ";", ",", "\"", "\\"}

Strings == UNION {[1..n -> Chars] : n \in 0..MaxStrLen} \cup {<<"n", "u", "l", "l">>}

\* numbers in tenths: 0, 1, 30, 45, 55.5, 68.3, 0.5, 2.5, -0.4, -0.5, -1
Numbers == {0, 10, 300, 450, 555, 683, 5, 25, -4, -5, -10}

\* 1970-01-01T00:00:00.000Z, 2022-04-23T05:46:17.497Z, 1999-12-31 and
\* 2024-02-29 at 23:59:59.999Z, and an invalid Date
Dates ==
    {Date(TRUE, 0, 0), Date(TRUE, 19105, 20777497), Date(TRUE, 10956, 86399999),
     Date(TRUE, 19782, 86399999), Date(FALSE, 0, 0)}

Values ==
    {Null, Bool(TRUE), Bool(FALSE)} \cup {Str(str) : str \in Strings}
    \cup {Num(n) : n \in Numbers} \cup Dates

ValueArrays ==
    {Arr(<<>>), Arr(<<Num(300), Num(450), Num(555)>>), Arr(<<Num(300), Num(450)>>),
     Arr(<<Str(<<"x">>), Str(<<",", ")">>)>>), Arr(<<Null, Bool(TRUE), Bool(FALSE)>>),
     Arr(<<Date(TRUE, 0, 0)>>), Arr(<<Num(10), Date(FALSE, 0, 0)>>)}

\* what a subclass hands to addComparison after the value
FourthArguments == {Undefined, Str(<<"i">>)}

BuilderLists == UNION {[1..n -> Builders] : n \in 0..MaxBuilders}

NoArgs ==
    [selector |-> <<>>, comparisonOperator |-> "", value |-> Undefined,
     builder |-> "", builders |-> <<>>, operator |-> NoLogicOperator,
     options |-> Options(NoLogicOperator, Undefined), fourth |-> Undefined]

\* the options of src/src/RSQLBuilderBase.ts, which have
\* replaceExistingLogicOperator (and name the default defaultMissingOperator)
BaseOptions(logicOperator, replace) ==
    [defaultLogicOperator |-> logicOperator, replaceExistingLogicOperator |-> replace,
     customComparisonOperators |-> Undefined]

BaseOptionsSet ==
    {BaseOptions(logicOperator, replace) :
        logicOperator \in {NoLogicOperator, "or"},
        replace \in {Undefined, Bool(TRUE), Bool(FALSE)}}

\* the custom operators RSQLBuilderMongoDb hands to RSQLBuilder, whose tables
\* hold the literals as strings
MongoDbComparisonOperators ==
    [regex    |-> Str(<<"=", "r", "e", "g", "e", "x", "=">>),
     notRegex |-> Str(<<"=", "n", "o", "t", "r", "e", "g", "e", "x", "=">>),
     exists   |-> Str(<<"=", "e", "x", "i", "s", "t", "s", "=">>)]

\* the default value of the parameter options of the constructor of
\* RSQLBuilderMongoDb
MongoDbDefaultOptions ==
    [BaseOptions(NoLogicOperator, Undefined) EXCEPT
        !.customComparisonOperators = MongoDbComparisonOperators]

\* what the constructor of RSQLBuilderMongoDb is called with: nothing, or
\* options without customComparisonOperators, or options with a table
MongoDbArguments ==
    {Undefined} \cup BaseOptionsSet
    \cup {[BaseOptions("or", Undefined) EXCEPT
              !.customComparisonOperators = MongoDbComparisonOperators]}

\* the regex patterns
Patterns == {<<"x">>, <<";">>}

\* the patterns handed to regex of src/src/RSQLBuilder copy.ts: with and
\* without ';' and ',' at the end
CopyPatterns == {<<"x">>, <<"x", ";">>, <<"x", ",", ";">>, <<",">>}

\* a reference to the table object of the caller
TableRef == [t |-> "object", ref |-> "table"]

\* the objects of the caller before any constructor runs:
\* table = {equal: ..., ...} and options = {customComparisonOperators: table}
CallerObjects ==
    [options |-> [defaultLogicOperator |-> NoLogicOperator,
                  customComparisonOperators |-> TableRef],
     table |-> CustomTable,
     held |-> [b \in Builders |-> FALSE]]

\* what the caller assigns to an entry of its table
Entries == {[rsql |-> <<"=", "x", "=">>]}

(***************************************************************************)
(* State                                                                   *)
(***************************************************************************)
NoCall ==
    [op |-> "none", this |-> "", args |-> NoArgs, pre |-> [b \in Builders |-> <<>>],
     threw |-> FALSE, error |-> "", start |-> <<>>, ret |-> Undefined]

\* this.defaultLogicOperator after new RSQLBuilderBase(options)
ConstructedDefault(opts) ==
    IF opts.defaultLogicOperator # NoLogicOperator
    THEN opts.defaultLogicOperator ELSE "and"

\* this.customComparisonOperators after new RSQLBuilderBase(opts)
ConstructedCustom(opts) ==
    IF Truthy(opts.customComparisonOperators)
    THEN opts.customComparisonOperators ELSE EmptyTable

\* the builders in made have been constructed, each with some options of opts
Constructed(made, opts) ==
    /\ rsqlStr = [b \in Builders |-> <<>>]
    /\ \E o \in [made -> opts] :
          /\ options = [b \in Builders |-> IF b \in made THEN o[b] ELSE NoArgs.options]
          /\ defaultLogicOperator =
                [b \in Builders |-> IF b \in made THEN ConstructedDefault(o[b]) ELSE "and"]
          /\ customComparisonOperators =
                [b \in Builders |-> IF b \in made THEN ConstructedCustom(o[b]) ELSE EmptyTable]
    /\ replaceExistingLogicOperator = [b \in Builders |-> TRUE]
    /\ live = made
    /\ last = NoCall
    /\ calls = 0
    /\ heap = CallerObjects
    /\ queryParts = <<>>

Init == Constructed({"b1", "b2"}, CompositionOptions)

InitComparison == Constructed({"b1"}, OptionsSet)

\* the text the current run of and()/or()/addLogicOperator calls on this
\* builder started from
RunStart(op, this) ==
    IF last.op \in {"and", "or", "addLogicOperator"} /\ last.this = this
    THEN last.start ELSE rsqlStr[this]

RECURSIVE SumLen(_, _)
SumLen(strs, bs) ==
    IF bs = {} THEN 0
    ELSE LET b == CHOOSE x \in bs : TRUE IN Len(strs[b]) + SumLen(strs, bs \ {b})

\* the characters all builders hold together
TotalLen(strs) == SumLen(strs, Builders)

\* what a call hands back: the value of a query, nothing for the others
\* (they return the builder itself)
Returned(r) == IF "ret" \in DOMAIN r THEN r.ret ELSE Undefined

\* a call of method op on builder this, with result r, in a run whose
\* builders hold at most max characters together
CallWithin(max, op, this, args, r) ==
    /\ calls' = calls + 1
    /\ TotalLen(r.strs) <= max
    /\ rsqlStr' = r.strs
    /\ last' = [op |-> op, this |-> this, args |-> args, pre |-> rsqlStr,
                threw |-> r.threw, error |-> r.error,
                start |-> IF op \in {"and", "or", "addLogicOperator"}
                          THEN RunStart(op, this) ELSE <<>>,
                ret |-> Returned(r)]

Call(op, this, args, r) == CallWithin(MaxLen, op, this, args, r)

\* new RSQLBuilderBase(options)
Constructor(this, opts) ==
    /\ this \notin live
    /\ live' = live \cup {this}
    /\ defaultLogicOperator' =
          [defaultLogicOperator EXCEPT ![this] = ConstructedDefault(opts)]
    /\ replaceExistingLogicOperator' = [replaceExistingLogicOperator EXCEPT ![this] = TRUE]
    /\ customComparisonOperators' =
          [customComparisonOperators EXCEPT ![this] = ConstructedCustom(opts)]
    /\ options' = [options EXCEPT ![this] = opts]
    /\ Call("constructor", this, [NoArgs EXCEPT !.options = opts],
            Return([rsqlStr EXCEPT ![this] = <<>>]))
    /\ UNCHANGED <<heap, queryParts>>

\* a constructor that assigns replaceExistingLogicOperator whenever the
\* options have it, false included
ConstructedReplaceExistingAsGiven(opts) ==
    IF opts.replaceExistingLogicOperator # Undefined
    THEN opts.replaceExistingLogicOperator.b ELSE TRUE

\* this.replaceExistingLogicOperator after the constructor of
\* src/src/RSQLBuilderBase.ts: the field starts true and
\* if (options.replaceExistingLogicOperator) assigns the option
ConstructedReplaceExisting(opts) ==
    IF Truthy(opts.replaceExistingLogicOperator)
    THEN opts.replaceExistingLogicOperator.b ELSE TRUE

\* new RSQLBuilderBase(options) of src/src/RSQLBuilderBase.ts
ConstructorOfBase(this, opts) ==
    /\ this \notin live
    /\ live' = live \cup {this}
    /\ defaultLogicOperator' =
          [defaultLogicOperator EXCEPT ![this] = ConstructedDefault(opts)]
    /\ replaceExistingLogicOperator' =
          [replaceExistingLogicOperator EXCEPT ![this] = ConstructedReplaceExisting(opts)]
    /\ customComparisonOperators' =
          [customComparisonOperators EXCEPT ![this] = ConstructedCustom(opts)]
    /\ options' = [options EXCEPT ![this] = opts]
    /\ Call("constructor", this, [NoArgs EXCEPT !.options = opts],
            Return([rsqlStr EXCEPT ![this] = <<>>]))
    /\ UNCHANGED <<heap, queryParts>>

\* a constructor of RSQLBuilderMongoDb that always adds its operators:
\* super({...options, customComparisonOperators: {...}})
MongoDbOptionsSpread(arg) ==
    IF arg = Undefined THEN MongoDbDefaultOptions
    ELSE [arg EXCEPT !.customComparisonOperators = MongoDbComparisonOperators]

\* the parameter options = {customComparisonOperators: {...}} of the
\* constructor of RSQLBuilderMongoDb: the default value takes the place of
\* an argument that is absent, and of no other
MongoDbOptions(arg) ==
    IF arg = Undefined THEN MongoDbDefaultOptions ELSE arg

\* new RSQLBuilderMongoDb(arg): super(options); options[this] keeps arg
ConstructorMongoDb(this, arg) ==
    LET opts == MongoDbOptions(arg)
    IN  /\ this \notin live
        /\ live' = live \cup {this}
        /\ defaultLogicOperator' =
              [defaultLogicOperator EXCEPT ![this] = ConstructedDefault(opts)]
        /\ replaceExistingLogicOperator' =
              [replaceExistingLogicOperator EXCEPT ![this] = ConstructedReplaceExisting(opts)]
        /\ customComparisonOperators' =
              [customComparisonOperators EXCEPT ![this] = ConstructedCustom(opts)]
        /\ options' = [options EXCEPT ![this] = arg]
        /\ CallWithin(MaxMongoDbLen, "constructor", this, NoArgs,
                      Return([rsqlStr EXCEPT ![this] = <<>>]))
        /\ UNCHANGED <<heap, queryParts>>

\* a method of RSQLBuilderMongoDb: super.addComparison(field, name, value);
\* the parameter options of regex and notRegex (fourth) is not read
MongoDbComparison(op, this, field, comparisonOperator, value, fourth) ==
    /\ this \in live
    /\ CallWithin(MaxMongoDbLen, op, this,
            [NoArgs EXCEPT !.selector = field, !.comparisonOperator = comparisonOperator,
                           !.value = value, !.fourth = fourth],
            addComparisonOfRSQLBuilder(rsqlStr, this, replaceExistingLogicOperator[this],
                                       defaultLogicOperator[this],
                                       customComparisonOperators[this],
                                       field, comparisonOperator, value))
    /\ UNCHANGED <<config, live, queryParts>>

Regex(this, field, regex, opts) ==
    MongoDbComparison("regex", this, field, "regex", Str(regex), opts)

NotRegex(this, field, regex, opts) ==
    MongoDbComparison("notRegex", this, field, "notRegex", Str(regex), opts)

\* like: this.regex(field, regex, options)
Like(this, field, regex, opts) ==
    MongoDbComparison("like", this, field, "regex", Str(regex), opts)

\* notLike: this.notRegex(field, regex, options)
NotLike(this, field, regex, opts) ==
    MongoDbComparison("notLike", this, field, "notRegex", Str(regex), opts)

Exists(this, field) ==
    MongoDbComparison("exists", this, field, "exists", Bool(TRUE), Undefined)

NotExists(this, field) ==
    MongoDbComparison("notExists", this, field, "exists", Bool(FALSE), Undefined)

\* regex(field, regex, options) of src/src/RSQLBuilder copy.ts
RegexOfCopy(this, field, regex, opts) ==
    /\ this \in live
    /\ Call("regex", this,
            [NoArgs EXCEPT !.selector = field, !.value = Str(regex), !.fourth = opts],
            regexOfCopy(rsqlStr, this, replaceExistingLogicOperator[this],
                        defaultLogicOperator[this], field,
                        <<"=", "r", "e", "g", "e", "x", "=">>, regex, opts))
    /\ UNCHANGED <<config, live, queryParts>>

\* notRegex(field, regex, options) of src/src/RSQLBuilder copy.ts
NotRegexOfCopy(this, field, regex, opts) ==
    /\ this \in live
    /\ Call("notRegex", this,
            [NoArgs EXCEPT !.selector = field, !.value = Str(regex), !.fourth = opts],
            regexOfCopy(rsqlStr, this, replaceExistingLogicOperator[this],
                        defaultLogicOperator[this], field,
                        <<"=", "n", "o", "t", "r", "e", "g", "e", "x", "=">>, regex, opts))
    /\ UNCHANGED <<config, live, queryParts>>

\* equals(field, value) of src/src/RSQLBuilder copy.ts
EqualsOfCopy(this, field, value) ==
    /\ this \in live
    /\ Call("equals", this, [NoArgs EXCEPT !.selector = field, !.value = value],
            equalsOfCopy(rsqlStr, this, replaceExistingLogicOperator[this],
                         defaultLogicOperator[this], field, value))
    /\ UNCHANGED <<config, live, queryParts>>

\* one call made on b1 and then the same call on b2, with result r
OnBoth(op, args, r) ==
    /\ {"b1", "b2"} \subseteq live
    /\ Call(op, "b1", args, r)
    /\ UNCHANGED <<config, live, queryParts>>

\* b1.and(); b2.and()
BothAnd ==
    OnBoth("and", NoArgs,
           and(and(rsqlStr, "b1", replaceExistingLogicOperator["b1"]).strs,
               "b2", replaceExistingLogicOperator["b2"]))

\* b1.or(); b2.or()
BothOr ==
    OnBoth("or", NoArgs,
           or(or(rsqlStr, "b1", replaceExistingLogicOperator["b1"]).strs,
              "b2", replaceExistingLogicOperator["b2"]))

\* b1.equal(selector, value); b2.equal(selector, value)
BothEqual(selector, value) ==
    OnBoth("equal", [NoArgs EXCEPT !.selector = selector, !.comparisonOperator = "equal",
                                   !.value = value],
           addComparison(
               addComparison(rsqlStr, "b1", replaceExistingLogicOperator["b1"],
                             defaultLogicOperator["b1"], customComparisonOperators["b1"],
                             selector, "equal", value).strs,
               "b2", replaceExistingLogicOperator["b2"], defaultLogicOperator["b2"],
               customComparisonOperators["b2"], selector, "equal", value))

\* the value of the options object of the caller: its fields, the table
\* followed to what it holds
OptionsValue ==
    Options(heap.options.defaultLogicOperator,
            IF heap.options.customComparisonOperators = TableRef
            THEN heap.table ELSE Undefined)

\* new RSQLBuilderBase(options) with the options object of the caller: the
\* string of defaultLogicOperator is copied, the table is assigned as it is
ConstructorOfCaller(this) ==
    /\ this \notin live
    /\ live' = live \cup {this}
    /\ defaultLogicOperator' =
          [defaultLogicOperator EXCEPT ![this] = ConstructedDefault(OptionsValue)]
    /\ replaceExistingLogicOperator' = [replaceExistingLogicOperator EXCEPT ![this] = TRUE]
    /\ customComparisonOperators' =
          [customComparisonOperators EXCEPT ![this] = ConstructedCustom(OptionsValue)]
    /\ heap' = [heap EXCEPT !.held[this] = Truthy(heap.options.customComparisonOperators)]
    /\ UNCHANGED queryParts
    /\ options' = [options EXCEPT ![this] = OptionsValue]
    /\ Call("constructor", this, [NoArgs EXCEPT !.options = OptionsValue],
            Return([rsqlStr EXCEPT ![this] = <<>>]))

\* a statement of the caller, which is no method call: the texts stay
Statement(op, args) ==
    /\ Call(op, "", args, Return(rsqlStr))
    /\ UNCHANGED <<defaultLogicOperator, replaceExistingLogicOperator, options, live>>

\* options.defaultLogicOperator = logicOperator, by the caller
SetDefaultLogicOperator(logicOperator) ==
    /\ heap' = [heap EXCEPT !.options.defaultLogicOperator = logicOperator]
    /\ UNCHANGED queryParts
    /\ Statement("set defaultLogicOperator", [NoArgs EXCEPT !.operator = logicOperator])
    /\ UNCHANGED customComparisonOperators

\* options.customComparisonOperators = value, by the caller: its table or
\* undefined
SetCustomComparisonOperators(value) ==
    /\ heap' = [heap EXCEPT !.options.customComparisonOperators = value]
    /\ UNCHANGED queryParts
    /\ Statement("set customComparisonOperators", [NoArgs EXCEPT !.value = value])
    /\ UNCHANGED customComparisonOperators

\* table[name] = entry, by the caller: every builder whose
\* customComparisonOperators is the table reads the new entry from then on
SetOperator(name, entry) ==
    LET table == [k \in DOMAIN heap.table \cup {name} |->
                     IF k = name THEN entry ELSE heap.table[k]]
    IN  /\ heap' = [heap EXCEPT !.table = table]
        /\ UNCHANGED queryParts
        /\ customComparisonOperators' =
              [b \in Builders |-> IF heap.held[b] THEN table
                                  ELSE customComparisonOperators[b]]
        /\ Statement("set operator", [NoArgs EXCEPT !.comparisonOperator = name])

\* a comparison method called with one argument more than addComparison
\* declares (fourth; Undefined when the call has none)
ComparisonWithin(max, op, this, selector, comparisonOperator, value, fourth) ==
    /\ this \in live
    /\ CallWithin(max, op, this,
            [NoArgs EXCEPT !.selector = selector,
                           !.comparisonOperator = comparisonOperator, !.value = value,
                           !.fourth = fourth],
            addComparison(rsqlStr, this, replaceExistingLogicOperator[this],
                          defaultLogicOperator[this], customComparisonOperators[this],
                          selector, comparisonOperator, value))
    /\ UNCHANGED <<config, live, queryParts>>

Comparison(op, this, selector, comparisonOperator, value) ==
    ComparisonWithin(MaxLen, op, this, selector, comparisonOperator, value, Undefined)

AddComparison(this, selector, comparisonOperator, value) ==
    Comparison("addComparison", this, selector, comparisonOperator, value)

Equal(this, selector, value) == Comparison("equal", this, selector, "equal", value)

NotEqual(this, selector, value) == Comparison("notEqual", this, selector, "notEqual", value)

LessThan(this, selector, value) == Comparison("lessThan", this, selector, "lessThan", value)

LessThanOrEqual(this, selector, value) ==
    Comparison("lessThanOrEqual", this, selector, "lessThanOrEqual", value)

GreaterThan(this, selector, value) ==
    Comparison("greaterThan", this, selector, "greaterThan", value)

GreaterThanOrEquals(this, selector, value) ==
    Comparison("greaterThanOrEquals", this, selector, "greaterThanOrEqual", value)

In(this, selector, values) == Comparison("in", this, selector, "in", values)

NotIn(this, selector, values) == Comparison("notIn", this, selector, "notIn", values)

AddLogicOperator(this, logicOperator) ==
    /\ this \in live
    /\ Call("addLogicOperator", this, [NoArgs EXCEPT !.operator = logicOperator],
            addLogicOperator(rsqlStr, this, replaceExistingLogicOperator[this], logicOperator))
    /\ UNCHANGED <<config, live, queryParts>>

And(this) ==
    /\ this \in live
    /\ Call("and", this, NoArgs, and(rsqlStr, this, replaceExistingLogicOperator[this]))
    /\ UNCHANGED <<config, live, queryParts>>

Or(this) ==
    /\ this \in live
    /\ Call("or", this, NoArgs, or(rsqlStr, this, replaceExistingLogicOperator[this]))
    /\ UNCHANGED <<config, live, queryParts>>

\* reset() that also puts the options back to those of a builder made
\* without options
ResetToDefaults(this) ==
    /\ this \in live
    /\ Call("reset", this, NoArgs, reset(rsqlStr, this))
    /\ defaultLogicOperator' = [defaultLogicOperator EXCEPT ![this] = "and"]
    /\ customComparisonOperators' = [customComparisonOperators EXCEPT ![this] = EmptyTable]
    /\ UNCHANGED <<replaceExistingLogicOperator, options, live, heap, queryParts>>

Reset(this) ==
    /\ this \in live
    /\ Call("reset", this, NoArgs, reset(rsqlStr, this))
    /\ UNCHANGED <<config, live, queryParts>>

\* a query: the texts stay and value is handed back
Query(strs, value) == [strs |-> strs, threw |-> FALSE, error |-> "", ret |-> value]

\* toString(); the name ToString is taken by the module TLC
ToStringCall(this) ==
    /\ this \in live
    /\ Call("toString", this, NoArgs, Query(rsqlStr, toString(rsqlStr, this)))
    /\ UNCHANGED <<config, live, queryParts>>

IsEmpty(this) ==
    /\ this \in live
    /\ Call("isEmpty", this, NoArgs, Query(rsqlStr, isEmpty(rsqlStr, this)))
    /\ UNCHANGED <<config, live, queryParts>>

Concat(this, builder) ==
    /\ this \in live /\ builder \in live
    /\ Call("concat", this, [NoArgs EXCEPT !.builder = builder],
            concat(rsqlStr, this, replaceExistingLogicOperator[this],
                   defaultLogicOperator[this], builder))
    /\ UNCHANGED <<config, live, queryParts>>

Group(this, builder) ==
    /\ this \in live /\ builder \in live
    /\ Call("group", this, [NoArgs EXCEPT !.builder = builder],
            group(rsqlStr, this, replaceExistingLogicOperator[this],
                  defaultLogicOperator[this], builder))
    /\ UNCHANGED <<config, live, queryParts>>

Merge(this, builders, operator) ==
    /\ this \in live /\ \A i \in 1..Len(builders) : builders[i] \in live
    /\ Call("merge", this, [NoArgs EXCEPT !.builders = builders, !.operator = operator],
            merge(rsqlStr, this, replaceExistingLogicOperator[this],
                  defaultLogicOperator[this], builders, operator))
    /\ UNCHANGED <<config, live, queryParts>>

\* RSQLBuilderBase.merge(builders, options): the constructor, then merge
StaticMerge(this, builders, opts) ==
    /\ this \notin live /\ \A i \in 1..Len(builders) : builders[i] \in live
    /\ live' = live \cup {this}
    /\ defaultLogicOperator' =
          [defaultLogicOperator EXCEPT ![this] = ConstructedDefault(opts)]
    /\ replaceExistingLogicOperator' = [replaceExistingLogicOperator EXCEPT ![this] = TRUE]
    /\ customComparisonOperators' =
          [customComparisonOperators EXCEPT ![this] = ConstructedCustom(opts)]
    /\ options' = [options EXCEPT ![this] = opts]
    /\ Call("static merge", this, [NoArgs EXCEPT !.builders = builders, !.options = opts],
            merge([rsqlStr EXCEPT ![this] = <<>>], this, TRUE,
                  defaultLogicOperator'[this], builders, NoLogicOperator))
    /\ UNCHANGED <<heap, queryParts>>

(***************************************************************************)
(* Composition of two builders by group and concat, with one kind of       *)
(* comparison.                                                             *)
(***************************************************************************)
Next ==
    \/ \E this \in Builders : calls < MaxCalls /\ Equal(this, <<"a">>, Num(10))
    \/ \E this \in Builders, logicOperator \in LogicOperators :
          calls < MaxCalls /\ AddLogicOperator(this, logicOperator)
    \/ \E this \in Builders : calls < MaxCalls /\ And(this)
    \/ \E this \in Builders : calls < MaxCalls /\ Or(this)
    \/ \E this \in Builders : calls < MaxCalls /\ Reset(this)
    \/ \E this \in Builders, builder \in Builders : calls < MaxCalls /\ Concat(this, builder)
    \/ \E this \in Builders, builder \in Builders : calls < MaxCalls /\ Group(this, builder)

Spec == Init /\ [][Next]_vars

(***************************************************************************)
(* Merging builders, into a builder and into a new one.                    *)
(***************************************************************************)
NextMerge ==
    \/ \E this \in Builders, opts \in CompositionOptions :
          calls < MaxMergeCalls /\ Constructor(this, opts)
    \/ \E this \in Builders : calls < MaxMergeCalls /\ Equal(this, <<"a">>, Num(10))
    \/ \E this \in Builders : calls < MaxMergeCalls /\ Or(this)
    \/ \E this \in Builders, builders \in BuilderLists,
          operator \in LogicOperators \cup {NoLogicOperator} :
          calls < MaxMergeCalls /\ Merge(this, builders, operator)
    \/ \E this \in Builders, builders \in BuilderLists, opts \in CompositionOptions :
          calls < MaxMergeCalls /\ StaticMerge(this, builders, opts)

SpecMerge == Init /\ [][NextMerge]_vars

(***************************************************************************)
(* Comparisons: one builder, every comparison method and every input, the  *)
(* logic operators, reset, the queries and a group of the builder itself.  *)
(***************************************************************************)
NextComparison ==
    \/ \E selector \in Selectors, name \in OperatorNames, value \in AnyValues :
          calls < MaxComparisonCalls /\ AddComparison("b1", selector, name, value)
    \/ \E selector \in Selectors, value \in ScalarValues :
          calls < MaxComparisonCalls /\ Equal("b1", selector, value)
    \/ \E selector \in Selectors, value \in ScalarValues :
          calls < MaxComparisonCalls /\ NotEqual("b1", selector, value)
    \/ \E selector \in Selectors, value \in ScalarValues :
          calls < MaxComparisonCalls /\ LessThan("b1", selector, value)
    \/ \E selector \in Selectors, value \in ScalarValues :
          calls < MaxComparisonCalls /\ LessThanOrEqual("b1", selector, value)
    \/ \E selector \in Selectors, value \in ScalarValues :
          calls < MaxComparisonCalls /\ GreaterThan("b1", selector, value)
    \/ \E selector \in Selectors, value \in ScalarValues :
          calls < MaxComparisonCalls /\ GreaterThanOrEquals("b1", selector, value)
    \/ \E selector \in Selectors, values \in ArrayValues :
          calls < MaxComparisonCalls /\ In("b1", selector, values)
    \/ \E selector \in Selectors, values \in ArrayValues :
          calls < MaxComparisonCalls /\ NotIn("b1", selector, values)
    \/ \E logicOperator \in LogicOperators :
          calls < MaxComparisonCalls /\ AddLogicOperator("b1", logicOperator)
    \/ calls < MaxComparisonCalls /\ And("b1")
    \/ calls < MaxComparisonCalls /\ Or("b1")
    \/ calls < MaxComparisonCalls /\ Reset("b1")
    \/ calls < MaxComparisonCalls /\ ToStringCall("b1")
    \/ calls < MaxComparisonCalls /\ IsEmpty("b1")
    \/ calls < MaxComparisonCalls /\ Group("b1", "b1")

SpecComparison == InitComparison /\ [][NextComparison]_vars

(***************************************************************************)
(* Values: one builder, the comparisons equal and in with every value, and *)
(* addComparison called as the subclass of the tests calls it.             *)
(***************************************************************************)
InitValue ==
    Constructed({"b1"}, {Options(NoLogicOperator, Undefined),
                         Options(NoLogicOperator, CustomTable)})

NextValue ==
    \/ \E selector \in Selectors, value \in Values :
          /\ calls < MaxValueCalls
          /\ ComparisonWithin(MaxValueLen, "equal", "b1", selector, "equal", value, Undefined)
    \/ \E selector \in Selectors, values \in ValueArrays :
          /\ calls < MaxValueCalls
          /\ ComparisonWithin(MaxValueLen, "in", "b1", selector, "in", values, Undefined)
    \/ \E selector \in Selectors, name \in {"isMonth", "isUpperCase"},
          fourth \in FourthArguments :
          /\ calls < MaxValueCalls
          /\ ComparisonWithin(MaxValueLen, "addComparison", "b1", selector, name,
                              Bool(TRUE), fourth)

SpecValue == InitValue /\ [][NextValue]_vars

(***************************************************************************)
(* Every public operation that changes a text, on two builders: one kind   *)
(* of comparison, and(), or(), reset(), concat, group and merge.  b1 has   *)
(* either default operator; merge is called without an operator and with   *)
(* OR.                                                                     *)
(***************************************************************************)
NextCompose ==
    \/ \E this \in Builders : calls < MaxComposeCalls /\ Equal(this, <<"a">>, Num(10))
    \/ \E this \in Builders : calls < MaxComposeCalls /\ And(this)
    \/ \E this \in Builders : calls < MaxComposeCalls /\ Or(this)
    \/ \E this \in Builders : calls < MaxComposeCalls /\ Reset(this)
    \/ \E this \in Builders, builder \in Builders :
          calls < MaxComposeCalls /\ Concat(this, builder)
    \/ \E this \in Builders, builder \in Builders :
          calls < MaxComposeCalls /\ Group(this, builder)
    \/ \E this \in Builders, builders \in BuilderLists, operator \in {NoLogicOperator, "or"} :
          calls < MaxComposeCalls /\ Merge(this, builders, operator)

\* b1 made with or without a default operator, b2 without options
InitCompose ==
    /\ Constructed({"b1", "b2"}, CompositionOptions)
    /\ options["b2"] = Options(NoLogicOperator, Undefined)

SpecCompose == InitCompose /\ [][NextCompose]_vars

(***************************************************************************)
(* Builders constructed with an options object and a table that the caller *)
(* keeps and changes, and the comparisons they render.                     *)
(***************************************************************************)
InitOptions == Constructed({}, CompositionOptions)

NextOptions ==
    \/ \E this \in {"b1", "b2"} : calls < MaxOptionsCalls /\ ConstructorOfCaller(this)
    \/ \E logicOperator \in LogicOperators \cup {NoLogicOperator} :
          calls < MaxOptionsCalls /\ SetDefaultLogicOperator(logicOperator)
    \/ \E value \in {Undefined, TableRef} :
          calls < MaxOptionsCalls /\ SetCustomComparisonOperators(value)
    \/ \E name \in {"equal", "lessThan"}, entry \in Entries :
          calls < MaxOptionsCalls /\ SetOperator(name, entry)
    \/ \E this \in {"b1", "b2"} : calls < MaxOptionsCalls /\ Equal(this, <<"a">>, Num(10))
    \/ \E this \in {"b1", "b2"} : calls < MaxOptionsCalls /\ LessThan(this, <<"a">>, Num(10))

SpecOptions == InitOptions /\ [][NextOptions]_vars

(***************************************************************************)
(* Two builders of src/src/RSQLBuilderBase.ts, constructed with any value  *)
(* of replaceExistingLogicOperator, that get the same calls.               *)
(***************************************************************************)
NextReplace ==
    \/ \E this \in {"b1", "b2"}, opts \in BaseOptionsSet :
          calls < MaxReplaceCalls /\ ConstructorOfBase(this, opts)
    \/ calls < MaxReplaceCalls /\ BothAnd
    \/ calls < MaxReplaceCalls /\ BothOr
    \/ calls < MaxReplaceCalls /\ BothEqual(<<"a">>, Num(10))

SpecReplace == InitOptions /\ [][NextReplace]_vars

(***************************************************************************)
(* One builder of the class RSQLBuilderMongoDb, constructed with and       *)
(* without an argument, and the methods the class adds.                    *)
(***************************************************************************)
NextMongoDb ==
    \/ \E arg \in MongoDbArguments :
          calls < MaxMongoDbCalls /\ ConstructorMongoDb("b1", arg)
    \/ \E field \in Selectors, regex \in Patterns, opts \in FourthArguments :
          calls < MaxMongoDbCalls /\ Regex("b1", field, regex, opts)
    \/ \E field \in Selectors, regex \in Patterns, opts \in FourthArguments :
          calls < MaxMongoDbCalls /\ NotRegex("b1", field, regex, opts)
    \/ \E field \in Selectors, regex \in Patterns, opts \in FourthArguments :
          calls < MaxMongoDbCalls /\ Like("b1", field, regex, opts)
    \/ \E field \in Selectors, regex \in Patterns, opts \in FourthArguments :
          calls < MaxMongoDbCalls /\ NotLike("b1", field, regex, opts)
    \/ \E field \in Selectors : calls < MaxMongoDbCalls /\ Exists("b1", field)
    \/ \E field \in Selectors : calls < MaxMongoDbCalls /\ NotExists("b1", field)

SpecMongoDb == InitOptions /\ [][NextMongoDb]_vars

(***************************************************************************)
(* One builder of src/src/RSQLBuilder copy.ts: regex and notRegex, which   *)
(* append the pattern as it is, then and(), or() and equals.               *)
(***************************************************************************)
NextCopy ==
    \/ \E field \in Selectors, regex \in CopyPatterns, opts \in FourthArguments :
          calls < MaxCopyCalls /\ RegexOfCopy("b1", field, regex, opts)
    \/ \E field \in Selectors, regex \in CopyPatterns, opts \in FourthArguments :
          calls < MaxCopyCalls /\ NotRegexOfCopy("b1", field, regex, opts)
    \/ \E field \in Selectors : calls < MaxCopyCalls /\ EqualsOfCopy("b1", field, Num(10))
    \/ calls < MaxCopyCalls /\ And("b1")
    \/ calls < MaxCopyCalls /\ Or("b1")

SpecCopy == InitComparison /\ [][NextCopy]_vars

(***************************************************************************)
(* RSQLQueryBuilder of index.ts: queryParts is the private array of the    *)
(* object made last.                                                       *)
(***************************************************************************)
\* queryParts.join(';') with every part followed by the separator
RECURSIVE joinPartsTrailing(_)
joinPartsTrailing(parts) ==
    IF parts = <<>> THEN <<>>
    ELSE Head(parts) \o <<";">> \o joinPartsTrailing(Tail(parts))

\* queryParts.join(';')
RECURSIVE joinParts(_)
joinParts(parts) ==
    IF parts = <<>> THEN <<>>
    ELSE IF Len(parts) = 1 THEN parts[1]
    ELSE parts[1] \o <<";">> \o joinParts(Tail(parts))

\* the template literal `${key}${operator}"${value}"` pushed to queryParts
addCondition(parts, key, operator, value) ==
    Append(parts, key \o operator \o <<"\"">> \o value \o <<"\"">>)

build(parts) == joinParts(parts)

Keys == {<<"n", "a", "m", "e">>}
ConditionOperators == {<<"=", "=">>, <<"!", "=">>}
ConditionValues == {<<"F", "i", "l", "i", "p">>, <<>>, <<";">>, <<"\"">>}

QueryBuilderArgs(key, operator, value) ==
    [NoArgs EXCEPT !.selector = key, !.comparisonOperator = operator, !.value = Str(value)]

\* a call on the RSQLQueryBuilder object: no RSQLBuilder is touched
QueryBuilderCall(op, args, ret) ==
    /\ calls < MaxQueryCalls
    /\ calls' = calls + 1
    /\ last' = [op |-> op, this |-> "", args |-> args, pre |-> rsqlStr,
                threw |-> FALSE, error |-> "", start |-> <<>>, ret |-> ret]
    /\ UNCHANGED <<rsqlStr, config, live>>

\* no RSQLBuilder is made; the RSQLQueryBuilder object starts with no parts
InitQueryBuilder == Constructed({}, {Options(NoLogicOperator, Undefined)})

\* new RSQLQueryBuilder()
ConstructorOfQueryBuilder ==
    /\ queryParts' = <<>>
    /\ QueryBuilderCall("RSQLQueryBuilder", NoArgs, Undefined)

AddCondition(key, operator, value) ==
    /\ queryParts' = addCondition(queryParts, key, operator, value)
    /\ QueryBuilderCall("addCondition", QueryBuilderArgs(key, operator, value), Undefined)

Build ==
    /\ UNCHANGED queryParts
    /\ QueryBuilderCall("build", NoArgs, Str(build(queryParts)))

NextQueryBuilder ==
    \/ ConstructorOfQueryBuilder
    \/ \E key \in Keys, operator \in ConditionOperators, value \in ConditionValues :
          AddCondition(key, operator, value)
    \/ Build

SpecQueryBuilder == InitQueryBuilder /\ [][NextQueryBuilder]_vars

(***************************************************************************)
(* Properties.  last is the latest call: its method, receiver, arguments,  *)
(* the texts before it (pre) and whether it threw.                         *)
(***************************************************************************)
OperatorChars == {";", ","}

EndsWithOperator(str) == Len(str) > 0 /\ str[Len(str)] \in OperatorChars

IsPrefix(p, str) == Len(p) <= Len(str) /\ SubSeq(str, 1, Len(p)) = p

\* str without its trailing ';' and ','
WithoutTrailingOperators(str) ==
    LET keep == {i \in 1..Len(str) : str[i] \notin OperatorChars}
    IN  IF keep = {} THEN <<>>
        ELSE SubSeq(str, 1, CHOOSE i \in keep : \A j \in keep : j <= i)

Token(logicOperator) == IF logicOperator = "or" THEN <<",">> ELSE <<";">>

\* the token of the default a builder was configured with: ',' when it was
\* constructed with default OR, ';' when with AND or with none
ConfiguredToken(b) == IF options[b].defaultLogicOperator = "or" THEN <<",">> ELSE <<";">>

\* the token that joins new content to str: none on an empty text and none
\* after an operator
Joiner(str, token) == IF Len(str) > 0 /\ ~EndsWithOperator(str) THEN token ELSE <<>>

ComparisonMethods ==
    {"equal", "notEqual", "lessThan", "lessThanOrEqual", "greaterThan",
     "greaterThanOrEquals", "in", "notIn", "addComparison"}

LogicMethods == {"and", "or", "addLogicOperator"}

Pre == last.pre[last.this]

Post == rsqlStr[last.this]

CalledOperator ==
    IF last.op = "addLogicOperator" THEN last.args.operator ELSE last.op

\* C2: after a run of and()/or()/addLogicOperator calls on a builder its text
\* is the text the run started from without its trailing ';' and ',', then
\* one token of the last operator called; no call of the run throws.
C2_LogicOperatorRun ==
    last.op \in LogicMethods =>
        /\ ~last.threw
        /\ Post = WithoutTrailingOperators(last.start) \o Token(CalledOperator)

C2_Witness ==
    /\ last.op = "or" /\ last.start # Pre
    /\ Len(last.start) >= 2
    /\ last.start[Len(last.start)] \in OperatorChars
    /\ last.start[Len(last.start) - 1] \in OperatorChars
    /\ Post = <<",">>

\* the text merge leaves in a builder holding str: each builder of the list
\* in order, in parentheses, joined by token where a joiner is due; a builder
\* of the list that is the receiver contributes the text it holds by then
RECURSIVE Merged(_, _, _, _, _)
Merged(str, this, builders, token, texts) ==
    IF builders = <<>> THEN str
    ELSE LET joined == str \o Joiner(str, token)
             text == IF Head(builders) = this THEN joined ELSE texts[Head(builders)]
         IN  Merged(joined \o <<"(">> \o text \o <<")">>, this, Tail(builders), token, texts)

RECURSIVE JoinedGroups(_, _)
JoinedGroups(texts, token) ==
    IF texts = <<>> THEN <<>>
    ELSE <<"(">> \o Head(texts) \o <<")">>
         \o (IF Len(texts) > 1 THEN token ELSE <<>>) \o JoinedGroups(Tail(texts), token)

C5_GroupAppendsParenthesized ==
    last.op = "group" =>
        LET joined == Pre \o Joiner(Pre, ConfiguredToken(last.this))
            text == IF last.args.builder = last.this THEN joined
                    ELSE last.pre[last.args.builder]
        IN  /\ ~last.threw
            /\ Post = joined \o <<"(">> \o text \o <<")">>

C5_Witness ==
    /\ last.op = "group" /\ last.args.builder # last.this
    /\ options[last.this].defaultLogicOperator # "or"
    /\ Pre = <<"a", "=", "=", "1", ",">>
    /\ Post = Pre \o <<"(", "a", "=", "=", "1", ")">>

\* C6: concat(other) changes nothing when other is empty; otherwise it appends
\* other's text without parentheses, after one token of the default operator
\* if and only if the text is non-empty and does not end with ';' or ','.
C6_ConcatAppendsFlat ==
    last.op = "concat" =>
        LET joined == Pre \o Joiner(Pre, ConfiguredToken(last.this))
            text == IF last.args.builder = last.this THEN joined
                    ELSE last.pre[last.args.builder]
        IN  /\ ~last.threw
            /\ Post = IF last.pre[last.args.builder] = <<>> THEN Pre ELSE joined \o text

C6_Witness ==
    /\ last.op = "concat" /\ last.args.builder # last.this
    /\ options[last.this].defaultLogicOperator = "or"
    /\ Pre = <<"a", "=", "=", "1">>
    /\ Post = <<"a", "=", "=", "1", ",", "a", "=", "=", "1", ";">>

\* the custom table a builder was configured with: the table of its options,
\* the empty one when the options name none
ConfiguredCustom(b) ==
    IF options[b].customComparisonOperators = Undefined THEN EmptyTable
    ELSE options[b].customComparisonOperators

\* the operator name the latest call asked for
CalledName == last.args.comparisonOperator

InCustomTable == CalledName \in DOMAIN ConfiguredCustom(last.this)

InBuiltInTable == CalledName \in DOMAIN comparisonOperators

\* the entry the name stands for in the tables, the custom one overriding
DefinedOperator ==
    IF InCustomTable THEN ConfiguredCustom(last.this)[CalledName]
    ELSE comparisonOperators[CalledName]

\* the entry's isArray flag is true
FlaggedArray(entry) == "isArray" \in DOMAIN entry /\ entry.isArray

\* the text a comparison starts with: the old text, the joiner, the selector
ComparisonHead == Pre \o Joiner(Pre, ConfiguredToken(last.this)) \o last.args.selector

C8_UnknownOperatorThrows ==
    (last.op = "addComparison" /\ ~InCustomTable /\ ~InBuiltInTable) =>
        /\ last.threw
        /\ Post = Pre \o Joiner(Pre, ConfiguredToken(last.this))

\* C9: a comparison with an operator whose isArray flag is true and a value
\* that is not an array throws and appends no comparison text.
C9_ArrayOperatorNeedsArray ==
    (/\ last.op \in ComparisonMethods
     /\ InCustomTable \/ InBuiltInTable
     /\ FlaggedArray(DefinedOperator)
     /\ last.args.value.t # "Array") =>
        /\ last.threw
        /\ Post = Pre \o Joiner(Pre, ConfiguredToken(last.this))

Supported(value) == value.t \in {"null", "string", "number", "boolean", "Date"}

\* the values the latest comparison handed to valueToString, in order: the
\* elements of an array given to an array operator, the value itself if it is
\* not an array, none when an array is given to a non-array operator
Serialized ==
    LET value == last.args.value
    IN  IF value.t # "Array" THEN <<value>>
        ELSE IF FlaggedArray(DefinedOperator) THEN value.a
        ELSE <<>>

\* C11: a comparison that has to serialize a value that is not null, a
\* string, a number, a boolean or a Date, also as an element of an array,
\* throws the unhandled-value error and appends no comparison text: the text
\* is the old one, with at most the joiner.
C11_UnsupportedValueThrows ==
    (/\ last.op \in ComparisonMethods
     /\ InCustomTable \/ InBuiltInTable
     /\ \E i \in 1..Len(Serialized) : ~Supported(Serialized[i])) =>
        /\ last.threw
        /\ last.error = "Unhandled value type."
        /\ Post = Pre \o Joiner(Pre, ConfiguredToken(last.this))

C11_Witness ==
    /\ last.op = "addComparison" /\ last.threw
    /\ CalledName = "in"
    /\ last.args.value = Arr(<<Arr(<<>>)>>)
    /\ Pre = <<"a", "=", "=", "1">>
    /\ Post = Pre \o <<";">>

\* a step that is a call proceeds from the text the call before it left, as
\* the method does from any text
ProceedsFromText ==
    LET b == last'.this
        old == rsqlStr[b]
        new == rsqlStr'[b]
    IN  /\ UNCHANGED config
        /\ (last'.op \in ComparisonMethods /\ ~last'.threw) =>
              LET head == old \o Joiner(old, ConfiguredToken(b)) \o last'.args.selector
              IN  IsPrefix(head, new) /\ Len(new) > Len(head)
        /\ last'.op \in {"and", "or"} =>
              new = WithoutTrailingOperators(old) \o Token(last'.op)
        /\ last'.op = "addLogicOperator" =>
              new = WithoutTrailingOperators(old) \o Token(last'.args.operator)
        /\ last'.op = "reset" => new = <<>>
        /\ last'.op \in {"toString", "isEmpty"} => new = old

\* C12: a call that throws leaves the text it found as a prefix of the text,
\* the throw comes from a comparison call and never from toString(), which
\* returns the text, and the calls that follow a throw proceed from the text
\* left, with the configuration unchanged.
C12_ErrorsAreLocal ==
    [][/\ last'.threw =>
             /\ last'.op \in ComparisonMethods
             /\ IsPrefix(rsqlStr[last'.this], rsqlStr'[last'.this])
       /\ last'.op = "toString" =>
             ~last'.threw /\ last'.ret = rsqlStr[last'.this]
       /\ last.threw => ProceedsFromText]_vars

C12_Witness ==
    /\ last.op = "addComparison" /\ last.threw
    /\ last.error = "Invalid comparison operator 'undefined'."
    /\ Pre = <<"a", "=", "=", "1", ",", "a", "=", "=", "\"", "x", "\"">>
    /\ Post = Pre \o <<",">>

(***************************************************************************)
(* The literal the specification gives a value.                            *)
(***************************************************************************)
DecimalDigits == <<"0", "1", "2", "3", "4", "5", "6", "7", "8", "9">>

\* the natural number k in decimal digits, without leading zeros
RECURSIVE Decimal(_)
Decimal(k) ==
    IF k < 10 THEN <<DecimalDigits[k + 1]>>
    ELSE Decimal(k \div 10) \o <<DecimalDigits[(k % 10) + 1]>>

\* k in decimal digits, with zeros in front up to width digits
RECURSIVE ZeroPadded(_, _)
ZeroPadded(k, width) ==
    IF Len(Decimal(k)) >= width THEN Decimal(k)
    ELSE <<"0">> \o ZeroPadded(k, width - 1) 

\* the exact decimal text of a number held in tenths: 683 is 68.3, 300 is 30
ExactDecimal(n) ==
    LET m == IF n < 0 THEN 0 - n ELSE n
    IN  (IF n < 0 THEN <<"-">> ELSE <<>>) \o Decimal(m \div 10)
        \o (IF m % 10 = 0 THEN <<>> ELSE <<".", DecimalDigits[(m % 10) + 1]>>)

EscapedChars == {"(", ")", ";", ","}

RECURSIVE Flatten(_)
Flatten(parts) == IF parts = <<>> THEN <<>> ELSE Head(parts) \o Flatten(Tail(parts))

\* str with a backslash before each of ( ) ; ,
Escaped(str) ==
    Flatten([i \in 1..Len(str) |->
                IF str[i] \in EscapedChars THEN <<"\\", str[i]>> ELSE <<str[i]>>])

IsLeapYear(y) == (y % 4 = 0 /\ y % 100 # 0) \/ y % 400 = 0

\* the days from 1970-01-01 to the first day of year y
RECURSIVE DaysBeforeYear(_)
DaysBeforeYear(y) ==
    IF y <= 1970 THEN 0
    ELSE DaysBeforeYear(y - 1) + (IF IsLeapYear(y - 1) THEN 366 ELSE 365)

DaysInMonth(y, m) ==
    IF m = 2 THEN (IF IsLeapYear(y) THEN 29 ELSE 28)
    ELSE IF m \in {4, 6, 9, 11} THEN 30 ELSE 31

\* the days from the first day of year y to the first day of its month m
RECURSIVE DaysBeforeMonth(_, _)
DaysBeforeMonth(y, m) ==
    IF m <= 1 THEN 0 ELSE DaysBeforeMonth(y, m - 1) + DaysInMonth(y, m - 1)

\* the ISO-8601 text, in UTC and with milliseconds, of the instant ms
\* milliseconds into the day that lies day days after 1970-01-01
IsoText(day, ms) ==
    LET y == CHOOSE yy \in 1970..2100 :
                 DaysBeforeYear(yy) <= day /\ day < DaysBeforeYear(yy + 1)
        rest == day - DaysBeforeYear(y)
        m == CHOOSE mm \in 1..12 :
                 /\ DaysBeforeMonth(y, mm) <= rest
                 /\ rest < DaysBeforeMonth(y, mm) + DaysInMonth(y, mm)
        d == rest - DaysBeforeMonth(y, m) + 1
        h == ms \div 3600000
        mi == (ms - h * 3600000) \div 60000
        sec == (ms - h * 3600000 - mi * 60000) \div 1000
        milli == ms - h * 3600000 - mi * 60000 - sec * 1000
    IN  ZeroPadded(y, 4) \o <<"-">> \o ZeroPadded(m, 2) \o <<"-">> \o ZeroPadded(d, 2)
        \o <<"T">> \o ZeroPadded(h, 2) \o <<":">> \o ZeroPadded(mi, 2)
        \o <<":">> \o ZeroPadded(sec, 2) \o <<".">> \o ZeroPadded(milli, 3) \o <<"Z">>

\* the literal of a supported value
Rendered(value) ==
    IF value.t = "null" THEN <<"n", "u", "l", "l">>
    ELSE IF value.t = "boolean"
         THEN (IF value.b THEN <<"t", "r", "u", "e">> ELSE <<"f", "a", "l", "s", "e">>)
    ELSE IF value.t = "number" THEN ExactDecimal(value.n)
    ELSE IF value.t = "string" THEN <<"\"">> \o Escaped(value.s) \o <<"\"">>
    ELSE IsoText(value.day, value.ms)

IsSuffix(p, str) ==
    Len(p) <= Len(str) /\ SubSeq(str, Len(str) - Len(p) + 1, Len(str)) = p

\* C13: addComparison called with options after the value appends '=' and the
\* options directly after the value's literal; called without, it appends
\* nothing after the value's literal.
C13_OptionsFollowValue ==
    (last.op = "addComparison" /\ InCustomTable) =>
        /\ ~last.threw
        /\ IsPrefix(ComparisonHead \o DefinedOperator.rsql \o Rendered(last.args.value), Post)
        /\ IsSuffix(Rendered(last.args.value)
                       \o (IF last.args.fourth = Undefined THEN <<>>
                           ELSE <<"=">> \o last.args.fourth.s),
                    Post)

\* the text the latest comparison put after the selector and the operator
\* literal
ValueLiteral ==
    SubSeq(Post, Len(ComparisonHead \o DefinedOperator.rsql) + 1, Len(Post))

\* C14: equal with a string value renders, after the selector and the
\* operator, a double quote, the characters of the string in order, each of
\* ( ) ; , with one backslash right before it and every other character
\* (also the quote and the backslash) as it is, and a double quote.
C14_StringEscaped ==
    (last.op = "equal" /\ last.args.value.t = "string") =>
        LET str == last.args.value.s
            r == ValueLiteral
            Position(i) == 1 + i + Cardinality({j \in 1..i : str[j] \in EscapedChars})
        IN  /\ ~last.threw
            /\ IsPrefix(ComparisonHead \o DefinedOperator.rsql, Post)
            /\ Len(r) = Len(str) + 2 + Cardinality({j \in 1..Len(str) : str[j] \in EscapedChars})
            /\ r[1] = "\"" /\ r[Len(r)] = "\""
            /\ \A i \in 1..Len(str) :
                  /\ r[Position(i)] = str[i]
                  /\ str[i] \in EscapedChars => r[Position(i) - 1] = "\\"

C14_Witness ==
    /\ last.op = "equal" /\ ~last.threw /\ ~InCustomTable
    /\ last.args.value = Str(<<";", ",">>)
    /\ Post = <<"a", "=", "=", "\"", "\\", ";", "\\", ",", "\"">>

\* the literals of the elements, in order, with ',' between them
RECURSIVE RenderedElements(_)
RenderedElements(a) ==
    IF a = <<>> THEN <<>>
    ELSE Rendered(Head(a)) \o (IF Len(a) > 1 THEN <<",">> ELSE <<>>)
         \o RenderedElements(Tail(a))

\* the literal of a list: the elements' literals in one pair of parentheses
RenderedList(a) == <<"(">> \o RenderedElements(a) \o <<")">>

NonIntegral(value) == value.t = "number" /\ value.n % 10 # 0

\* C15: a number that is not integral renders with its exact decimal value:
\* equal with such a number appends selector, operator and the exact decimal,
\* and in with a list of numbers of which one is not integral appends the
\* exact decimals of all in parentheses.
C15_NonIntegralExact ==
    /\ (last.op = "equal" /\ NonIntegral(last.args.value)) =>
          /\ ~last.threw
          /\ Post = ComparisonHead \o DefinedOperator.rsql \o Rendered(last.args.value)
    /\ (/\ last.op = "in" /\ last.args.value.t = "Array"
        /\ \A i \in 1..Len(last.args.value.a) : last.args.value.a[i].t = "number"
        /\ \E i \in 1..Len(last.args.value.a) : NonIntegral(last.args.value.a[i])) =>
          /\ ~last.threw
          /\ Post = ComparisonHead \o DefinedOperator.rsql \o RenderedList(last.args.value.a)

\* the number a text of decimal digits stands for
RECURSIVE DecimalValue(_)
DecimalValue(text) ==
    IF text = <<>> THEN 0
    ELSE DecimalValue(SubSeq(text, 1, Len(text) - 1)) * 10
         + (CHOOSE k \in 0..9 : DecimalDigits[k + 1] = text[Len(text)])

\* text is the integer k written in decimal digits: a '-' for a negative one,
\* then digits only, without a leading zero
IsIntegerLiteral(text, k) ==
    LET digits == IF k < 0 THEN Tail(text) ELSE text
    IN  /\ Len(digits) >= 1
        /\ k < 0 => Head(text) = "-"
        /\ \A i \in 1..Len(digits) : \E j \in 1..10 : digits[i] = DecimalDigits[j]
        /\ Len(digits) > 1 => digits[1] # "0"
        /\ DecimalValue(digits) = (IF k < 0 THEN 0 - k ELSE k)

\* C16: equal renders the null value as null, a boolean as true or false, an
\* integral number as its decimal digits without a fraction and a valid Date
\* as its ISO-8601 text in UTC with milliseconds, none of them with a quote;
\* a string renders inside quotes, so never as the literal of null.
C16_ScalarLiterals ==
    (last.op = "equal" /\ Supported(last.args.value) /\ ~NonIntegral(last.args.value)
        /\ (last.args.value.t = "Date" => last.args.value.valid)) =>
        LET value == last.args.value
            r == ValueLiteral
        IN  /\ ~last.threw
            /\ IsPrefix(ComparisonHead \o DefinedOperator.rsql, Post)
            /\ value.t = "null" => r = <<"n", "u", "l", "l">>
            /\ value.t = "boolean" =>
                  r = (IF value.b THEN <<"t", "r", "u", "e">> ELSE <<"f", "a", "l", "s", "e">>)
            /\ value.t = "number" => IsIntegerLiteral(r, value.n \div 10)
            /\ value.t = "Date" => r = IsoText(value.day, value.ms) /\ Len(r) = 24
            /\ value.t # "string" => \A i \in 1..Len(r) : r[i] # "\""
            /\ value.t = "string" =>
                  /\ r[1] = "\"" /\ r[Len(r)] = "\""
                  /\ r # <<"n", "u", "l", "l">>

C16_Witness ==
    /\ last.op = "equal" /\ ~last.threw /\ ~InCustomTable
    /\ last.args.value = Date(TRUE, 19105, 20777497)
    /\ Post = <<"a", "=", "=", "2", "0", "2", "2", "-", "0", "4", "-", "2", "3", "T",
                "0", "5", ":", "4", "6", ":", "1", "7", ".", "4", "9", "7", "Z">>

\* the literal the specification gives each built-in comparison method
BuiltInLiterals ==
    [equal               |-> <<"=", "=">>,
     notEqual            |-> <<"!", "=">>,
     lessThan            |-> <<"=", "l", "t", "=">>,
     lessThanOrEqual     |-> <<"=", "l", "e", "=">>,
     greaterThan         |-> <<"=", "g", "t", "=">>,
     greaterThanOrEquals |-> <<"=", "g", "e", "=">>,
     in                  |-> <<"=", "i", "n", "=">>,
     notIn               |-> <<"=", "o", "u", "t", "=">>]

C18_ResetKeepsConfiguration ==
    [][LET b == last'.this
       IN  /\ last'.op = "reset" =>
                 /\ ~last'.threw
                 /\ rsqlStr'[b] = <<>>
                 /\ isEmpty(rsqlStr', b) /\ toString(rsqlStr', b) = <<>>
                 /\ defaultLogicOperator'[b] = defaultLogicOperator[b]
                 /\ customComparisonOperators'[b] = customComparisonOperators[b]
           /\ (/\ last.op = "reset" /\ last'.this = last.this
               /\ last'.op \in ComparisonMethods /\ ~last'.threw
               /\ InCustomTable' \/ InBuiltInTable') =>
                 /\ defaultLogicOperator'[b] = ConstructedDefault(options[b])
                 /\ IsPrefix(last'.args.selector \o DefinedOperator'.rsql, rsqlStr'[b])]_vars

C18_Witness ==
    /\ last.op = "reset" /\ ~last.threw
    /\ Pre = <<"a", "=", "e", "q", "=", "1", ";">>
    /\ Post = <<>>
    /\ customComparisonOperators[last.this] = CustomTable

\* C19: toString() returns the text as it is, a leading or trailing ';' or
\* ',' included, and changes neither a text nor the configuration; the call
\* after it proceeds from the same text.
C19_ToStringVerbatim ==
    [][/\ last'.op = "toString" =>
             /\ ~last'.threw
             /\ last'.ret = rsqlStr[last'.this]
             /\ rsqlStr' = rsqlStr
             /\ UNCHANGED config
       /\ last.op = "toString" => (rsqlStr = last.pre /\ ProceedsFromText)]_vars

C19_Witness ==
    /\ last.op = "toString" /\ ~last.threw
    /\ last.ret = <<"a", "=", "=", "1", ";">>
    /\ Post = last.ret

\* C20: isEmpty() returns true exactly when the text has length 0 and changes
\* nothing; the text is empty in a new builder and after reset(), and not
\* empty after a comparison that returns, after group and after and()/or(),
\* so isEmpty() is false for a text that is one operator token.
C20_IsEmptyIffNoText ==
    /\ last.op = "isEmpty" =>
          /\ ~last.threw /\ rsqlStr = last.pre
          /\ last.ret = (Len(Pre) = 0)
    /\ last.op = "none" => \A b \in live : isEmpty(rsqlStr, b)
    /\ last.op = "reset" => isEmpty(rsqlStr, last.this)
    /\ (last.op \in ComparisonMethods \cup {"group", "and", "or"} /\ ~last.threw) =>
          ~isEmpty(rsqlStr, last.this)

C20_Witness ==
    /\ last.op = "isEmpty" /\ ~last.threw
    /\ Pre = <<",">>
    /\ last.ret = FALSE

\* the methods that take builders as arguments
ComposingMethods == {"group", "concat", "merge"}

\* C21: group, concat and merge leave every builder other than the receiver
\* with the text it had, the builders of the argument among them; and a later
\* comparison, and(), or() or reset() on a builder, one that was an argument
\* among them, leaves the text of every other builder as it was.
C21_ArgumentCopiedByValue ==
    /\ last.op \in ComposingMethods =>
          \A b \in Builders \ {last.this} : rsqlStr[b] = last.pre[b]
    /\ last.op \in ComparisonMethods \cup LogicMethods \cup {"reset"} =>
          \A b \in Builders \ {last.this} : rsqlStr[b] = last.pre[b]

\* b2 is reset after b1 grouped its text: b1 keeps the copy
C21_Witness ==
    /\ last.op = "reset" /\ last.this = "b2"
    /\ last.pre["b2"] = <<"a", "=", "=", "1">>
    /\ rsqlStr["b2"] = <<>>
    /\ last.pre["b1"] = <<"(", "a", "=", "=", "1", ")">>
    /\ rsqlStr["b1"] = <<"(", "a", "=", "=", "1", ")">>

\* b1 has just grouped the text of b2, which b2 still holds
C21_GroupWitness ==
    /\ last.op = "group" /\ last.this = "b1" /\ last.args.builder = "b2"
    /\ rsqlStr["b2"] = <<"a", "=", "=", "1">>
    /\ rsqlStr["b1"] = <<"(", "a", "=", "=", "1", ")">>
\* C22: a comparison, group, concat or merge only appends: the text before
\* the call is a prefix of the text after it.  and() and or() take away
\* nothing but ';' and ',' at the end: what they leave starts with the old
\* text up to some position after which the old text held operators only.
C22_OnlyAppends ==
    /\ last.op \in ComparisonMethods \cup ComposingMethods => IsPrefix(Pre, Post)
    /\ last.op \in {"and", "or"} =>
          \E k \in 0..Len(Pre) :
             /\ IsPrefix(SubSeq(Pre, 1, k), Post)
             /\ \A i \in (k + 1)..Len(Pre) : Pre[i] \in OperatorChars

\* a comparison after a group: the embedded text stays
C22_Witness ==
    /\ last.op = "equal" /\ last.this = "b1"
    /\ Pre = <<"(", "a", "=", "=", "1", ")">>
    /\ Post = <<"(", "a", "=", "=", "1", ")", ";", "a", "=", "=", "1">>
\* the token merge was called with, the configured default without one
MergeToken ==
    IF last.args.operator # NoLogicOperator
    THEN Token(last.args.operator) ELSE ConfiguredToken(last.this)

\* every builder of the merge list was empty when merge read it: it held no
\* text before the call, and it is the receiver at most in the first place
ListedEmpty ==
    \A i \in 1..Len(last.args.builders) :
       /\ last.pre[last.args.builders[i]] = <<>>
       /\ last.args.builders[i] = last.this => i = 1

C23_GroupWitness ==
    /\ last.op = "group" /\ last.args.builder = "b2" /\ rsqlStr["b2"] = <<>>
    /\ Post = <<"a", "=", "=", "1", ";", "(", ")">>
\* the literal of operator name in the configuration builder b was
\* constructed with: the one of its custom table as the table was then, else
\* the built-in one
ConstructedLiteral(b, name) ==
    IF name \in DOMAIN ConfiguredCustom(b) THEN ConfiguredCustom(b)[name].rsql
    ELSE comparisonOperators[name].rsql

\* C24: a builder owns its configuration: whatever the caller does to the
\* options object and to the table after the constructor returned, and
\* whichever other builder is constructed with them, a comparison of the
\* builder renders the literal its configuration had at construction, joined
\* by the default operator it had at construction.
C24_ConfigurationOwned ==
    (last.op \in {"equal", "lessThan"} /\ ~last.threw) =>
        IsPrefix(Pre \o Joiner(Pre, ConfiguredToken(last.this)) \o last.args.selector
                     \o ConstructedLiteral(last.this, CalledName) \o <<"1">>,
                 Post)
\* C25: a comparison method that throws leaves the old text and, when the old
\* text was non-empty and did not end with ';' or ',', one token of the
\* default operator after it; on an empty text and on one that ends with an
\* operator the throw leaves the text as it was.
C25_ThrowAfterEnsure ==
    (last.op \in ComparisonMethods /\ last.threw) =>
        IF Len(Pre) > 0 /\ Pre[Len(Pre)] \notin OperatorChars
        THEN Post = Pre \o ConfiguredToken(last.this)
        ELSE Post = Pre

\* an array handed to a scalar operator after a==1 on a builder with default OR
C25_Witness ==
    /\ last.op = "addComparison" /\ last.threw
    /\ last.args.comparisonOperator = "equal" /\ last.args.value.t = "Array"
    /\ options[last.this].defaultLogicOperator = "or"
    /\ Pre = <<"a", "=", "=", "1">>
    /\ Post = <<"a", "=", "=", "1", ",">>
\* position i of str lies in a quoted string literal: an odd number of
\* quotes comes before it
InQuotes(str, i) == Cardinality({j \in 1..(i - 1) : str[j] = "\""}) % 2 = 1

\* C26: after any calls of the comparison, and, or, group, concat, merge and
\* reset on builders that were empty at first, no text holds a ';' or ','
\* that the next character, again a ';' or ',', follows outside a quoted
\* string literal.
C26_NoAdjacentOperators ==
    \A b \in Builders :
       \A i \in 1..(Len(rsqlStr[b]) - 1) :
          ~ /\ rsqlStr[b][i] \in OperatorChars
            /\ rsqlStr[b][i + 1] \in OperatorChars
            /\ ~InQuotes(rsqlStr[b], i)
\* str, then for each builder of the list the token and the builder's text
\* in parentheses; the receiver in the list contributes the text held by
\* then, token included
RECURSIVE JoinedByToken(_, _, _, _, _)
JoinedByToken(str, this, builders, token, texts) ==
    IF builders = <<>> THEN str
    ELSE LET text == IF Head(builders) = this THEN str \o token ELSE texts[Head(builders)]
         IN  JoinedByToken(str \o token \o <<"(">> \o text \o <<")">>,
                           this, Tail(builders), token, texts)

\* C27: when the text ends with ';' or ',' as merge starts, the first group
\* comes right after that operator, whatever operator the call names, and
\* each later group comes after the token of the named operator, or of the
\* default when the call names none.
C27_MergeKeepsExistingOperator ==
    (last.op = "merge" /\ last.args.builders # <<>> /\ EndsWithOperator(Pre)) =>
        LET first == IF Head(last.args.builders) = last.this THEN Pre
                     ELSE last.pre[Head(last.args.builders)]
        IN  Post = JoinedByToken(Pre \o <<"(">> \o first \o <<")">>, last.this,
                                 Tail(last.args.builders), MergeToken, last.pre)

\* merge with OR of two empty builders into a text that ends with ';': the
\* ';' stays
C27_Witness ==
    /\ last.op = "merge" /\ last.args.builders = <<"b2", "b2">>
    /\ last.args.operator = "or"
    /\ Pre = <<"a", "=", "=", "1", ";">>
    /\ Post = <<"a", "=", "=", "1", ";", "(", ")", ",", "(", ")">>
\* C28: a builder handed to its own group or concat while its text t is
\* non-empty and does not end with an operator gets the default token first
\* and then the text it holds by then: t, token, '(', t, token, ')' for group
\* and t, token, t, token for concat.
C28_SelfArgumentReadAfterInsert ==
    (/\ last.op \in {"group", "concat"} /\ last.args.builder = last.this
     /\ Len(Pre) > 0 /\ ~EndsWithOperator(Pre)) =>
        LET t == Pre
            op == ConfiguredToken(last.this)
        IN  IF last.op = "group"
            THEN Post = t \o op \o <<"(">> \o t \o op \o <<")">>
            ELSE Post = t \o op \o t \o op

\* b1.concat(b1) on a builder with default OR that holds a==1
C28_Witness ==
    /\ last.op = "concat" /\ last.args.builder = last.this
    /\ options[last.this].defaultLogicOperator = "or"
    /\ Pre = <<"a", "=", "=", "1">>
    /\ Post = <<"a", "=", "=", "1", ",", "a", "=", "=", "1", ",">>

\* b.group(b) on a builder that holds a==1
C28_GroupWitness ==
    /\ last.op = "group" /\ last.args.builder = last.this
    /\ Pre = <<"a", "=", "=", "1">>
    /\ Post = <<"a", "=", "=", "1", ";", "(", "a", "=", "=", "1", ";", ")">>
\* C29: builders constructed with replaceExistingLogicOperator false, true
\* and absent, and the same default operator, hold the same text after the
\* same calls; and() and or() leave one operator at the end of each, never
\* two.
C29_ReplaceNotSwitchedOff ==
    {"b1", "b2"} \subseteq live =>
        /\ options["b1"].defaultLogicOperator = options["b2"].defaultLogicOperator =>
              rsqlStr["b1"] = rsqlStr["b2"]
        /\ last.op \in {"and", "or"} =>
              \A b \in {"b1", "b2"} :
                 /\ EndsWithOperator(rsqlStr[b])
                 /\ ~EndsWithOperator(SubSeq(rsqlStr[b], 1, Len(rsqlStr[b]) - 1))

\* and() then or() on a builder made with false and on one made without the
\* option: each holds ','
C29_Witness ==
    /\ {"b1", "b2"} \subseteq live
    /\ options["b1"].replaceExistingLogicOperator = Bool(FALSE)
    /\ options["b2"].replaceExistingLogicOperator = Undefined
    /\ last.op = "or" /\ last.pre["b1"] = <<";">>
    /\ rsqlStr["b1"] = <<",">> /\ rsqlStr["b2"] = <<",">>
\* the methods RSQLBuilderMongoDb adds
MongoDbMethods == {"regex", "notRegex", "like", "notLike", "exists", "notExists"}

\* the literal each method of RSQLBuilderMongoDb stands for
MongoDbLiteral(op) ==
    IF op \in {"regex", "like"} THEN <<"=", "r", "e", "g", "e", "x", "=">>
    ELSE IF op \in {"notRegex", "notLike"} THEN <<"=", "n", "o", "t", "r", "e", "g", "e", "x", "=">>
    ELSE <<"=", "e", "x", "i", "s", "t", "s", "=">>

\* the token of the default of a builder of RSQLBuilderMongoDb: ',' when it
\* was constructed with options whose default is OR
MongoDbToken(b) ==
    IF options[b] # Undefined /\ options[b].defaultLogicOperator = "or"
    THEN <<",">> ELSE <<";">>

\* C30: on a RSQLBuilderMongoDb constructed without an argument the methods
\* regex, notRegex, like, notLike, exists and notExists return and append
\* the field, the literal of the method and the value; on one constructed
\* with options that have no customComparisonOperators each of them throws
\* the error of an invalid comparison operator and appends no comparison.
C30_MongoDbOperatorsByDefaultArgument ==
    last.op \in MongoDbMethods =>
        LET arg == options[last.this]
            joined == Pre \o Joiner(Pre, MongoDbToken(last.this))
        IN  /\ arg = Undefined =>
                  /\ ~last.threw
                  /\ Post = joined \o last.args.selector \o MongoDbLiteral(last.op)
                                  \o Rendered(last.args.value)
            /\ (arg # Undefined /\ arg.customComparisonOperators = Undefined) =>
                  /\ last.threw
                  /\ last.error = "Invalid comparison operator 'undefined'."
                  /\ Post = joined

\* notLike on a builder made without an argument
C30_Witness ==
    /\ last.op = "notLike" /\ options[last.this] = Undefined /\ ~last.threw
    /\ Pre = <<>>
    /\ Post = <<"a", "=", "n", "o", "t", "r", "e", "g", "e", "x", "=", "\"", "\\", ";", "\"">>

\* exists on a builder made with {defaultLogicOperator: 'or'} alone
C30_ThrowWitness ==
    /\ last.op = "exists" /\ last.threw
    /\ options[last.this] = BaseOptions("or", Undefined)
    /\ Post = <<>>
\* the latest call is regex or notRegex without options, with a pattern that
\* ends with ';' or ','
PatternEndsWithOperator ==
    /\ last.op \in {"regex", "notRegex"}
    /\ last.args.fourth = Undefined
    /\ EndsWithOperator(last.args.value.s)

\* the text regex or notRegex leaves, but for the pattern: the old text, the
\* joiner, the field and the literal
BeforePattern ==
    Pre \o Joiner(Pre, ConfiguredToken(last.this)) \o last.args.selector
        \o (IF last.op = "regex" THEN <<"=", "r", "e", "g", "e", "x", "=">>
            ELSE <<"=", "n", "o", "t", "r", "e", "g", "e", "x", "=">>)

\* C31: after regex or notRegex with a pattern that ends with ';' or ',' the
\* text ends with the pattern as given; the next and() or or() leaves the
\* pattern without the ';' and ',' it ended with and then its own token, and
\* a comparison that comes next is appended right after the pattern, with no
\* logical operator in between.
C31_PatternTakenForOperator ==
    [][PatternEndsWithOperator =>
          /\ Post = BeforePattern \o last.args.value.s
          /\ last'.op \in {"and", "or"} =>
                rsqlStr'[last.this] =
                   BeforePattern \o WithoutTrailingOperators(last.args.value.s)
                                 \o Token(last'.op)
          /\ last'.op = "equals" =>
                rsqlStr'[last.this] =
                   Post \o last'.args.selector \o <<"=", "=">> \o <<"1">>]_vars

\* or() after a pattern x,; : the text ends with x and the ',' of or()
C31_Witness ==
    /\ last.op = "or"
    /\ Pre = <<"a", "=", "r", "e", "g", "e", "x", "=", "x", ",", ";">>
    /\ Post = <<"a", "=", "r", "e", "g", "e", "x", "=", "x", ",">>

\* equals after a pattern x; : no operator of the builder in between
C31_ComparisonWitness ==
    /\ last.op = "equals"
    /\ Pre = <<"a", "=", "r", "e", "g", "e", "x", "=", "x", ";">>
    /\ Post = <<"a", "=", "r", "e", "g", "e", "x", "=", "x", ";", "a", "=", "=", "1">>

\* C32: the errors thrown carry their messages with no trailing period: a
\* comparison that throws on a value valueToString has no literal for has the
\* message 'Unhandled value type', and one that throws on an operator name
\* in neither table has the message "Invalid comparison operator 'undefined'".
C32_MessagesWithoutPeriod ==
    (last.op \in ComparisonMethods /\ last.threw) =>
        /\ (~InCustomTable /\ ~InBuiltInTable) =>
              last.error = "Invalid comparison operator 'undefined'"
        /\ (/\ InCustomTable \/ InBuiltInTable
            /\ \E i \in 1..Len(Serialized) : ~Supported(Serialized[i])) =>
              last.error = "Unhandled value type"

\* the messages the thrown errors carry, for a name that is looked up as
\* undefined and for a value with no literal: the ones above, with a period
C32_MessagesWithPeriod ==
    (last.op \in ComparisonMethods /\ last.threw) =>
        /\ (~InCustomTable /\ ~InBuiltInTable /\ CalledName \notin ObjectPrototypeKeys) =>
              last.error = "Invalid comparison operator 'undefined'."
        /\ (/\ InCustomTable \/ InBuiltInTable
            /\ \E i \in 1..Len(Serialized) : ~Supported(Serialized[i])) =>
              last.error = "Unhandled value type."

C32_UnknownOperatorWitness ==
    /\ last.op = "addComparison" /\ last.threw
    /\ CalledName = "invalidComparisonOperator"
    /\ last.error = "Invalid comparison operator 'undefined'."

C32_UnhandledValueWitness ==
    /\ last.op = "addComparison" /\ last.threw
    /\ CalledName = "equal"
    /\ ~Supported(last.args.value)
    /\ last.error = "Unhandled value type."

\* where part i starts in a text that holds the parts in order, one
\* character between neighbours: the number of characters before it
RECURSIVE PartOffset(_, _)
PartOffset(parts, i) ==
    IF i = 1 THEN 0 ELSE PartOffset(parts, i - 1) + Len(parts[i - 1]) + 1

\* text is the parts in their order, a ';' between neighbours and nowhere
\* else: none in front of the first part and none after the last
SemicolonSeparated(text, parts) ==
    LET n == Len(parts)
    IN  /\ Len(text) = IF n = 0 THEN 0 ELSE PartOffset(parts, n) + Len(parts[n])
        /\ \A i \in 1..n :
              SubSeq(text, PartOffset(parts, i) + 1,
                     PartOffset(parts, i) + Len(parts[i])) = parts[i]
        /\ \A i \in 2..n : text[PartOffset(parts, i)] = ";"

\* C33: addCondition adds key + operator + '"' + value + '"' after the
\* conditions added before; build() returns the conditions in that order
\* joined by ';' with no leading or trailing ';', the empty string when there
\* are none, and leaves the builder as it is, so that a second build()
\* returns the same string.
C33_BuildJoinsConditions ==
    [][/\ last'.op = "addCondition" =>
             /\ Len(queryParts') = Len(queryParts) + 1
             /\ SubSeq(queryParts', 1, Len(queryParts)) = queryParts
             /\ queryParts'[Len(queryParts')] =
                   last'.args.selector \o last'.args.comparisonOperator
                      \o <<"\"">> \o last'.args.value.s \o <<"\"">>
       /\ last'.op = "build" =>
             /\ queryParts' = queryParts
             /\ last'.ret.t = "string"
             /\ SemicolonSeparated(last'.ret.s, queryParts)
             /\ queryParts = <<>> => last'.ret = Str(<<>>)
             /\ last.op = "build" => last'.ret = last.ret]_vars

C33_Witness ==
    /\ last.op = "build"
    /\ queryParts = << <<"n", "a", "m", "e", "=", "=", "\"", "F", "i", "l", "i", "p", "\"">>,
                       <<"n", "a", "m", "e", "!", "=", "\"", ";", "\"">> >>
    /\ last.ret = Str(<<"n", "a", "m", "e", "=", "=", "\"", "F", "i", "l", "i", "p", "\"", ";",
                        "n", "a", "m", "e", "!", "=", "\"", ";", "\"">>)

C33_EmptyWitness ==
    /\ last.op = "build" /\ queryParts = <<>> /\ last.ret = Str(<<>>) /\ calls = 2
====
